---------------------------- MODULE Spec2Model ----------------------------
(***************************************************************************)
(* PeerWeb resource-resolution core.                                       *)
(*                                                                         *)
(* Two single-threaded event loops that share no memory:                   *)
(*   - the Site Manager (class PeerWeb, src/peerweb.js), which owns the    *)
(*     torrent-backed file set of the current site, and                    *)
(*   - the Resolver (the Service Worker, src/peerweb-sw.js), which         *)
(*     intercepts /peerweb-site/<hash>/<path> requests.                    *)
(* Every step of the model is one run of a handler or callback from one    *)
(* suspension point (await, setTimeout, postMessage delivery) to the next. *)
(* Strings the code inspects (file names, request paths, MIME types) are   *)
(* sequences of one-character strings, so that endsWith / includes /       *)
(* startsWith / split are computed, not looked up.                         *)
(***************************************************************************)
EXTENDS Integers, Sequences, FiniteSets, TLC

(***************************************************************************)
(* Bounds of the model                                                     *)
(***************************************************************************)
\* fetch events the Resolver intercepts in one run
MaxRequests == 1
\* loadSite invocations in one run
MaxLoads == 2
\* showMainContent invocations in one run
MaxUnloads == 1
\* byte-read errors the swarm adapter reports for fully downloaded files
MaxReadErrors == 1
\* fetch events in one run of the Resolver taken on its own (SpecResolver)
MaxOpenRequests == 2
\* messages posted to the Resolver and not yet delivered (SpecResolver)
MaxInFlight == 1
\* length in bytes of the longest file a Range header is parsed against (SpecRange)
MaxFileSize == 4
\* files of the longest manifest a path is resolved against (SpecLookup)
MaxManifest == 3

(***************************************************************************)
(* Strings                                                                 *)
(***************************************************************************)
UpperChars == <<"A","B","C","D","E","F","G","H","I","J","K","L","M",
                "N","O","P","Q","R","S","T","U","V","W","X","Y","Z">>
LowerChars == <<"a","b","c","d","e","f","g","h","i","j","k","l","m",
                "n","o","p","q","r","s","t","u","v","w","x","y","z">>

\* the lower-case letter of each upper-case letter
LowerOf ==
    [c \in {UpperChars[i] : i \in 1..Len(UpperChars)} |->
        LowerChars[CHOOSE i \in 1..Len(UpperChars) : UpperChars[i] = c]]

LowerChar(c) == IF c \in DOMAIN LowerOf THEN LowerOf[c] ELSE c

\* String.prototype.toLowerCase
ToLower(s) == [i \in 1..Len(s) |-> LowerChar(s[i])]

\* String.prototype.startsWith
StartsWith(s, p) == Len(p) <= Len(s) /\ SubSeq(s, 1, Len(p)) = p

\* String.prototype.endsWith
EndsWith(s, p) == Len(p) <= Len(s) /\ SubSeq(s, Len(s) - Len(p) + 1, Len(s)) = p

\* String.prototype.includes
Includes(s, p) == \E i \in 1..(Len(s) + 1) : i + Len(p) - 1 <= Len(s) /\ SubSeq(s, i, i + Len(p) - 1) = p

\* s.split(sep).pop() for a one-character separator: what follows the last sep
LastPart(s, sep) ==
    IF \E i \in 1..Len(s) : s[i] = sep
    THEN LET k == CHOOSE i \in 1..Len(s) : s[i] = sep /\ \A j \in (i + 1)..Len(s) : s[j] # sep
         IN SubSeq(s, k + 1, Len(s))
    ELSE s

IndexHtml == <<"i","n","d","e","x",".","h","t","m","l">>
SlashIndexHtml == <<"/">> \o IndexHtml
DotHtml == <<".","h","t","m","l">>
DotCss == <<".","c","s","s">>
DotJs == <<".","j","s">>
StyleCss == <<"a">> \o DotCss
ClipMp4 == <<"v",".","m","p","4">>
ScriptJs == <<"x">> \o DotJs
NotesTxt == <<"n",".","t","x","t">>
PageHtml == <<"f">> \o DotHtml
EmptyPath == << >>

TextHtml == <<"t","e","x","t","/","h","t","m","l">>
TextCss == <<"t","e","x","t","/","c","s","s">>
AppJs == <<"a","p","p","l","i","c","a","t","i","o","n","/","j","a","v","a","s","c","r","i","p","t">>
VideoMp4 == <<"v","i","d","e","o","/","m","p","4">>
AudioMpeg == <<"a","u","d","i","o","/","m","p","e","g">>
ImageGif == <<"i","m","a","g","e","/","g","i","f">>
OctetStream == <<"a","p","p","l","i","c","a","t","i","o","n","/","o","c","t","e","t","-","s","t","r","e","a","m">>

(***************************************************************************)
(* Sites and their torrents                                                *)
(***************************************************************************)
\* Site identifiers (sanitized 40-hex hashes, compared by equality only)
Sites == {"a", "b"}
\* null, for an identifier, a record, a timer handle
Null == "null"
\* null / undefined of the other types
NullData == [null |-> TRUE, files |-> << >>]
NoRecord == [name |-> << >>, owner |-> Null, type |-> << >>, size |-> -1]
NoBytes == [owner |-> Null, name |-> << >>, length |-> -1]
NoBody == [owner |-> Null, name |-> << >>, from |-> 0, len |-> 0]
NoUrl == [hash |-> Null, path |-> << >>]
NoType == << >>
NoSpan == << >>
NoRange == [start |-> -1, end |-> -1]
\* no Range header; in a header, -1 is a part parseInt reads as NaN
NoRangeHeader == [unit |-> "none", start |-> -1, end |-> -1]
\* this.currentSiteData / a cache entry holding the File Records `files`
SiteData(files) == [null |-> FALSE, files |-> files]

\* The file descriptors {name, length} of each site's torrent, in the order
\* the swarm adapter lists them.
\* "c" and "d" are torrents of five files of every kind the extraction loop
\* tells apart, "c" with an index file and "d" without one; no site of Sites
\* is made of them, they are the inputs of the early-availability policy.
TorrentFiles(h) ==
    IF h = "a"
    THEN << [name |-> ClipMp4, length |-> 200000], [name |-> IndexHtml, length |-> 10] >>
    ELSE IF h = "b"
    THEN << [name |-> IndexHtml, length |-> 10], [name |-> StyleCss, length |-> 10] >>
    ELSE IF h = "c"
    THEN << [name |-> IndexHtml, length |-> 10], [name |-> StyleCss, length |-> 10],
            [name |-> ScriptJs, length |-> 10], [name |-> NotesTxt, length |-> 10],
            [name |-> ClipMp4, length |-> 10] >>
    ELSE << [name |-> PageHtml, length |-> 10], [name |-> StyleCss, length |-> 10],
            [name |-> ScriptJs, length |-> 10], [name |-> NotesTxt, length |-> 10],
            [name |-> ClipMp4, length |-> 10] >>

\* file.progress values a progress event may leave a file at (percent)
ProgressLevels == <<0, 100>>


(***************************************************************************)
(* Site Manager: pure helpers (src/peerweb.js)                             *)
(***************************************************************************)
MediaExtensions ==
    { <<".","m","p","4">>, <<".","w","e","b","m">>, <<".","a","v","i">>, <<".","m","o","v">>,
      <<".","w","m","v">>, <<".","f","l","v">>, <<".","m","k","v">>, <<".","m","p","3">>,
      <<".","w","a","v">>, <<".","o","g","g">>, <<".","a","a","c">>, <<".","f","l","a","c">>,
      <<".","m","4","a">>, <<".","g","i","f">> }

\* PeerWeb.isMediaFile(filename): by file extension
isMediaFileName(filename) == \E ext \in MediaExtensions : EndsWith(ToLower(filename), ext)

\* PeerWeb.getContentType(filename): MIME type of the extension (the
\* extensions the modelled sites use; every other one is octet-stream)
getContentType(filename) ==
    LET ext == LastPart(ToLower(filename), ".")
    IN CASE ext = <<"h","t","m","l">> -> TextHtml
         [] ext = <<"h","t","m">> -> TextHtml
         [] ext = <<"c","s","s">> -> TextCss
         [] ext = <<"j","s">> -> AppJs
         [] ext = <<"g","i","f">> -> ImageGif
         [] ext = <<"m","p","4">> -> VideoMp4
         [] ext = <<"m","p","3">> -> AudioMpeg
         [] OTHER -> OctetStream

\* the predicate of findIndexFile and of displaySite's index search
isIndexName(name) ==
    LET lower == ToLower(name) IN lower = IndexHtml \/ EndsWith(lower, SlashIndexHtml)

\* the looser test processTorrentEarly uses (retry, completion gate)
includesIndexHtml(name) == Includes(ToLower(name), IndexHtml)

\* PeerWeb.findIndexFile(files) !== undefined
findIndexFile(h) == \E i \in 1..Len(TorrentFiles(h)) : isIndexName(TorrentFiles(h)[i].name)

\* "essential" in the sort comparator of processTorrentEarly
isEssentialForSort(name) ==
    \/ includesIndexHtml(name)
    \/ EndsWith(ToLower(name), DotCss)
    \/ EndsWith(ToLower(name), DotJs)

\* "essential" in the extraction loop of processTorrentEarly
isEssentialForThreshold(name) ==
    includesIndexHtml(name) \/ EndsWith(ToLower(name), DotCss)

\* PEERWEB_CONFIG thresholds, in percent
EARLY_PROCESS_THRESHOLD == 95
ESSENTIAL_FILES_THRESHOLD == 80
FILE_PROGRESS_THRESHOLD_REGULAR == 80
FILE_PROGRESS_THRESHOLD_ESSENTIAL == 90
FILE_PROGRESS_THRESHOLD_MEDIA == 70
\* hasEssentialFiles: a file counts as available at 90% ; timer: progress > 80%
FILE_AVAILABLE_PROGRESS == 90
TIMER_MIN_PROGRESS == 80

\* required progress of a file in an early pass
requiredProgress(name) ==
    IF isEssentialForThreshold(name) THEN FILE_PROGRESS_THRESHOLD_ESSENTIAL
    ELSE IF isMediaFileName(name) THEN FILE_PROGRESS_THRESHOLD_MEDIA
    ELSE FILE_PROGRESS_THRESHOLD_REGULAR

RECURSIVE SumOver(_, _)
SumOver(f, n) == IF n = 0 THEN 0 ELSE f[n] + SumOver(f, n - 1)

\* torrent.length and the downloaded bytes times 100, for file progresses prog
TorrentLength(h) ==
    SumOver([i \in 1..Len(TorrentFiles(h)) |-> TorrentFiles(h)[i].length], Len(TorrentFiles(h)))
Downloaded100(h, prog) ==
    SumOver([i \in 1..Len(TorrentFiles(h)) |-> TorrentFiles(h)[i].length * prog[i]], Len(TorrentFiles(h)))

\* torrent.progress >= pct / 100   and   torrent.progress > pct / 100
ProgressAtLeast(h, prog, pct) == Downloaded100(h, prog) >= pct * TorrentLength(h)
ProgressAbove(h, prog, pct) == Downloaded100(h, prog) > pct * TorrentLength(h)

\* PeerWeb.hasEssentialFiles(torrent)
hasEssentialFiles(h, prog) ==
    LET n == Len(TorrentFiles(h))
        availableFiles == Cardinality({i \in 1..n : prog[i] >= FILE_AVAILABLE_PROGRESS})
    IN availableFiles * 100 >= ESSENTIAL_FILES_THRESHOLD * n

\* the decision without the index-file condition of the second branch
shouldProcessSiteEarly_NoIndexNeeded(h, prog) ==
    \/ ProgressAtLeast(h, prog, EARLY_PROCESS_THRESHOLD)
    \/ hasEssentialFiles(h, prog)

\* PeerWeb.shouldProcessSiteEarly(torrent)
shouldProcessSiteEarly(h, prog) ==
    \/ ProgressAtLeast(h, prog, EARLY_PROCESS_THRESHOLD)
    \/ (findIndexFile(h) /\ hasEssentialFiles(h, prog))

\* files.sort(comparator) of processTorrentEarly, applied to the file order
\* `order` (indices into TorrentFiles): essential first, media last, stable.
SortRank(name) ==
    (IF isEssentialForSort(name) THEN 0 ELSE 2) + (IF isMediaFileName(name) THEN 1 ELSE 0)

RECURSIVE FilterRank(_, _, _)
FilterRank(h, order, r) ==
    IF order = << >> THEN << >>
    ELSE (IF SortRank(TorrentFiles(h)[Head(order)].name) = r THEN <<Head(order)>> ELSE << >>)
         \o FilterRank(h, Tail(order), r)

\* a pass that reads the files in the order they are listed
sortFiles_Unsorted(h, order) == order

sortFiles(h, order) ==
    FilterRank(h, order, 0) \o FilterRank(h, order, 1) \o FilterRank(h, order, 2) \o FilterRank(h, order, 3)

\* the File Record stored in siteData[file.name]; `owner` names the torrent
\* the bytes were read from (it stands for the byte content itself)
FileRecord(h, i) ==
    [ name |-> TorrentFiles(h)[i].name,
      owner |-> h,
      type |-> getContentType(TorrentFiles(h)[i].name),
      size |-> TorrentFiles(h)[i].length ]

\* Object.keys(siteData)
Keys(siteData) == [i \in 1..Len(siteData) |-> siteData[i].name]

(***************************************************************************)
(* State                                                                   *)
(***************************************************************************)
VARIABLES
    \* --- Site Manager (class PeerWeb) ---
    currentHash,           \* this.currentHash: Null or a site identifier
    currentSiteData,       \* this.currentSiteData: NullData or SiteData(File Records in key order)
    processingInProgress,  \* this.processingInProgress
    processingTimeout,     \* this.processingTimeout: Null or the torrent whose timer it holds
    loadPc,                \* per site: "idle", or "cacheGet" while loadSite awaits cache.get
    cache,                 \* PeerWebCache: per site NullData or the cached SiteData
    torrent,               \* per site: the torrent added for it (status, progress, timer)
    pass,                  \* per site: the extraction pass running on its torrent
    viewer,                \* Null or the site whose virtual URL the iframe shows
    viewerTimers,          \* sites with a pending setTimeout(showSiteViewer, INIT_DELAY)
    loads,                 \* number of loadSite invocations so far
    unloads,               \* number of showMainContent invocations so far
    readErrors,            \* byte-read errors reported so far for complete files
    \* --- message channels (postMessage, in send order) ---
    toSW,                  \* Manager -> Resolver
    toMgr,                 \* Resolver -> Manager
    \* --- Resolver (Service Worker) ---
    currentSiteHash,       \* Null or a site identifier
    currentSiteFiles,      \* Set of known paths
    pendingRequests,       \* Map requestId -> Pending Request
    mediaCache,            \* Map request URL -> Media Byte Cache Entry
    reqs,                  \* the fetch events intercepted so far; requestId = index
    \* --- history ---
    swState,               \* Readiness State by the last site message the Resolver processed
    readySent,             \* sites for which a SITE_READY has been posted
    overtaken,             \* sites whose running pass has seen a loadSite of another site begin
    \* --- a helper function taken on its own (the specifications of the helpers) ---
    fnIn,                  \* << >>, or <<x>>: the argument x the helper is called with
    fnOut                  \* << >>, or <<y>>: the value y the call returned

mgrVars == <<currentHash, currentSiteData, processingInProgress, processingTimeout, loadPc,
             cache, torrent, pass, viewer, viewerTimers, loads, unloads, readErrors>>
swVars == <<currentSiteHash, currentSiteFiles, pendingRequests, mediaCache, reqs, swState>>
fnVars == <<fnIn, fnOut>>
vars == <<mgrVars, swVars, toSW, toMgr, readySent, overtaken, fnVars>>

IdlePass == [pc |-> "idle", kind |-> "none", idx |-> 0, data |-> << >>, processed |-> 0]

NoTorrent(h) ==
    [ status |-> "none",
      prog |-> [i \in 1..Len(TorrentFiles(h)) |-> 0],
      order |-> [i \in 1..Len(TorrentFiles(h)) |-> i],
      done |-> FALSE,
      timer |-> "none" ]

\* PeerWebCache is an IndexedDB store, which outlives the page: site "b" was
\* cached by an earlier session (a full pass over its torrent), site "a" was not.
CachedSites ==
    [h \in Sites |-> IF h = "b"
                     THEN SiteData([i \in 1..Len(TorrentFiles(h)) |-> FileRecord(h, i)])
                     ELSE NullData]

\* The state after the constructor and init(): libraries loaded, WebTorrent
\* client ready, Service Worker registered and controlling the page.
InitProgram ==
    /\ currentHash = Null
    /\ currentSiteData = NullData
    /\ processingInProgress = FALSE
    /\ processingTimeout = Null
    /\ loadPc = [h \in Sites |-> "idle"]
    /\ cache = CachedSites
    /\ torrent = [h \in Sites |-> NoTorrent(h)]
    /\ pass = [h \in Sites |-> IdlePass]
    /\ viewer = Null
    /\ viewerTimers = {}
    /\ loads = 0
    /\ unloads = 0
    /\ readErrors = 0
    /\ toSW = << >>
    /\ toMgr = << >>
    /\ currentSiteHash = Null
    /\ currentSiteFiles = {}
    /\ pendingRequests = << >>
    /\ mediaCache = << >>
    /\ reqs = << >>
    /\ swState = "NoSite"
    /\ readySent = {}
    /\ overtaken = {}

\* the program as a whole: no helper is taken on its own
Init == InitProgram /\ fnIn = << >> /\ fnOut = << >>

(***************************************************************************)
(* Messages (the fields of section "Cross-process message protocol")       *)
(***************************************************************************)
Msg(type, hash, fileList, requestId, url, data, contentType) ==
    [ type |-> type, hash |-> hash, fileList |-> fileList, requestId |-> requestId,
      url |-> url, data |-> data, contentType |-> contentType, span |-> NoSpan ]

SiteReadyMsg(hash, siteData) == Msg("SITE_READY", hash, Keys(siteData), 0, NoUrl, NoBytes, NoType)
SiteLoadingMsg(hash) == Msg("SITE_LOADING", hash, << >>, 0, NoUrl, NoBytes, NoType)
SiteUnloadedMsg == Msg("SITE_UNLOADED", Null, << >>, 0, NoUrl, NoBytes, NoType)
ResourceResponseMsg(requestId, url, data, contentType) ==
    Msg("RESOURCE_RESPONSE", Null, << >>, requestId, url, data, contentType)
\* chunk = data; span = <<start, end, total>>
MediaChunkResponseMsg(requestId, chunk, span) ==
    [Msg("MEDIA_CHUNK_RESPONSE", Null, << >>, requestId, NoUrl, chunk, NoType) EXCEPT !.span = span]

(***************************************************************************)
(* Site Manager: displaySite, loadSite, showSiteViewer, showMainContent    *)
(***************************************************************************)
\* displaySite's index search: some key is index.html or ends with /index.html
hasIndexFile(siteData) == \E i \in 1..Len(siteData) : isIndexName(siteData[i].name)

\* displaySite(siteData, hash): stores the site, and, when an index file is
\* among the keys, posts SITE_READY (sendSiteReadyAndLoad runs to its
\* postMessage before any other task: the controller is there) and arms the
\* INIT_DELAY timer of showSiteViewer.  Without an index file: alert, return.
\* a displaySite that goes on to publish whatever the keys are
displaySitePublishes_Always(siteData) == TRUE

displaySitePublishes(siteData) == hasIndexFile(siteData)

\* a displaySite that arms the viewer's timer without posting SITE_READY
displaySite_NoMessage(siteData, hash) ==
    /\ currentSiteData' = SiteData(siteData)
    /\ currentHash' = hash
    /\ IF displaySitePublishes(siteData)
       THEN /\ viewerTimers' = viewerTimers \cup {hash}
            /\ UNCHANGED <<toSW, readySent>>
       ELSE UNCHANGED <<toSW, viewerTimers, readySent>>

displaySite(siteData, hash) ==
    /\ currentSiteData' = SiteData(siteData)
    /\ currentHash' = hash
    /\ IF displaySitePublishes(siteData)
       THEN /\ toSW' = Append(toSW, SiteReadyMsg(hash, siteData))
            /\ viewerTimers' = viewerTimers \cup {hash}
            /\ readySent' = readySent \cup {hash}
       ELSE UNCHANGED <<toSW, viewerTimers, readySent>>

\* what loadSite does to the Manager's site state before its first await
loadSiteBegin(h) ==
    /\ currentHash' = h
    /\ UNCHANGED <<currentSiteData, toSW>>

\* loadSite(hash), up to `await this.cache.get(sanitizedHash)`.  The load
\* controls are part of the main content, which showSiteViewer hides.
LoadSite(h) ==
    /\ loads < MaxLoads
    /\ viewer = Null
    /\ loadPc[h] = "idle"
    /\ loadSiteBegin(h)
    /\ loadPc' = [loadPc EXCEPT ![h] = "cacheGet"]
    /\ loads' = loads + 1
    /\ overtaken' = overtaken \cup {g \in Sites \ {h} : pass[g].pc \in {"read", "retry", "cacheSet"}}
    /\ UNCHANGED fnVars
    /\ UNCHANGED <<processingInProgress, processingTimeout, cache, torrent, pass, viewer,
                   viewerTimers, unloads, readErrors, toMgr, swVars, readySent>>

\* loadSite resumes with a cached site: displayCachedSite
LoadSiteCached(h) ==
    /\ loadPc[h] = "cacheGet"
    /\ ~cache[h].null
    /\ displaySite(cache[h].files, h)
    /\ loadPc' = [loadPc EXCEPT ![h] = "idle"]
    /\ UNCHANGED <<processingInProgress, processingTimeout, cache, torrent, pass, viewer,
                   loads, unloads, readErrors, toMgr, swVars, overtaken, fnVars>>

\* loadSite resumes without a cached site: client.add(magnetURI, callback).
\* A torrent the client already holds is not added again (no callback).
LoadSiteAddTorrent(h) ==
    /\ loadPc[h] = "cacheGet"
    /\ cache[h].null
    /\ loadPc' = [loadPc EXCEPT ![h] = "idle"]
    /\ torrent' = IF torrent[h].status = "none"
                  THEN [torrent EXCEPT ![h].status = "adding"]
                  ELSE torrent
    /\ UNCHANGED <<currentHash, currentSiteData, processingInProgress, processingTimeout, cache,
                   pass, viewer, viewerTimers, loads, unloads, readErrors, toSW, toMgr, swVars,
                   readySent, overtaken, fnVars>>

\* the callback of client.add: registers the download/done handlers, and,
\* when the torrent has an index file, arms the processing timer
TorrentAdded(h) ==
    /\ torrent[h].status = "adding"
    /\ IF findIndexFile(h)
       THEN /\ torrent' = [torrent EXCEPT ![h].status = "active", ![h].timer = "armed"]
            /\ processingTimeout' = h
       ELSE /\ torrent' = [torrent EXCEPT ![h].status = "active"]
            /\ UNCHANGED processingTimeout
    /\ UNCHANGED <<currentHash, currentSiteData, processingInProgress, loadPc, cache, pass,
                   viewer, viewerTimers, loads, unloads, readErrors, toSW, toMgr, swVars, readySent, overtaken, fnVars>>

\* the INIT_DELAY timer of displaySite fires: showSiteViewer(siteUrl, hash)
ShowSiteViewer(h) ==
    /\ h \in viewerTimers
    /\ viewerTimers' = viewerTimers \ {h}
    /\ viewer' = h
    /\ UNCHANGED <<currentHash, currentSiteData, processingInProgress, processingTimeout, loadPc,
                   cache, torrent, pass, loads, unloads, readErrors, toSW, toMgr, swVars, readySent, overtaken, fnVars>>

\* showMainContent(): the back button of the site viewer
ShowMainContent ==
    /\ unloads < MaxUnloads
    /\ viewer # Null
    /\ viewer' = Null
    /\ currentSiteData' = NullData
    /\ currentHash' = Null
    /\ toSW' = Append(toSW, SiteUnloadedMsg)
    /\ unloads' = unloads + 1
    /\ UNCHANGED <<processingInProgress, processingTimeout, loadPc, cache, torrent, pass,
                   viewerTimers, loads, readErrors, toMgr, swVars, readySent, overtaken, fnVars>>

(***************************************************************************)
(* Site Manager: extraction passes (processTorrentEarly, processTorrent)   *)
(***************************************************************************)
NumFiles(h) == Len(TorrentFiles(h))

\* clearTimeout(this.processingTimeout); this.processingTimeout = null
clearProcessingTimeout(t) ==
    IF processingTimeout # Null /\ t[processingTimeout].timer = "armed"
    THEN [t EXCEPT ![processingTimeout].timer = "cleared"]
    ELSE t

\* an early pass skips a file (continue) when it is below its threshold and
\* is not media
skipsFile(h, i, prog) ==
    LET name == TorrentFiles(h)[i].name
    IN prog[i] < requiredProgress(name) /\ ~isMediaFileName(name)

\* the first position from j on, in file order `order`, whose file the early
\* pass reads; NumFiles(h) + 1 when it skips all that are left
RECURSIVE nextRead(_, _, _, _)
nextRead(h, order, prog, j) ==
    IF j > NumFiles(h) THEN j
    ELSE IF skipsFile(h, order[j], prog) THEN nextRead(h, order, prog, j + 1)
    ELSE j

\* the completion gate of processTorrentEarly: it goes on to cache and
\* display the site only with a processed file and an index.html key
earlyGatePasses(data, processed) ==
    /\ processed # 0
    /\ \E i \in 1..Len(data) : includesIndexHtml(data[i].name)

\* what processTorrentEarly does when the gate fails: it logs and returns
\* (pc "gateFailed": the pass has ended at one of the two returns of the gate)
earlyGateFailed ==
    [pc |-> "gateFailed", kind |-> "early", idx |-> 0, data |-> << >>, processed |-> 0]

\* the early pass from position j of the loop to its next await
earlyFrom(h, order, prog, j, data, processed) ==
    LET k == nextRead(h, order, prog, j)
    IN IF k <= NumFiles(h)
       THEN [pc |-> "read", kind |-> "early", idx |-> k, data |-> data, processed |-> processed]
       ELSE IF earlyGatePasses(data, processed)
       THEN [pc |-> "cacheSet", kind |-> "early", idx |-> k, data |-> data, processed |-> processed]
       ELSE earlyGateFailed

\* the full pass from position j of the loop to its next await
fullFrom(h, j, data, processed) ==
    IF j <= NumFiles(h)
    THEN [pc |-> "read", kind |-> "full", idx |-> j, data |-> data, processed |-> processed]
    ELSE [pc |-> "cacheSet", kind |-> "full", idx |-> j, data |-> data, processed |-> processed]

passFrom(h, kind, order, prog, j, data, processed) ==
    IF kind = "early" THEN earlyFrom(h, order, prog, j, data, processed)
    ELSE fullFrom(h, j, data, processed)

\* siteData[file.name] = record: a new key goes last, an old key keeps its place
putRecord(data, rec) ==
    IF \E i \in 1..Len(data) : data[i].name = rec.name
    THEN [i \in 1..Len(data) |-> IF data[i].name = rec.name THEN rec ELSE data[i]]
    ELSE Append(data, rec)

\* the guard of the download handler
downloadStartsPass(h, prog) == ~processingInProgress /\ shouldProcessSiteEarly(h, prog)

\* torrent.on('download'): a progress event of file i, then the handler
Download(h, i) ==
    /\ torrent[h].status = "active"
    /\ i \in 1..NumFiles(h)
    /\ torrent[h].prog[i] < 100
    /\ LET level == CHOOSE l \in 1..Len(ProgressLevels) : ProgressLevels[l] = torrent[h].prog[i]
           prog == [torrent[h].prog EXCEPT ![i] = ProgressLevels[level + 1]]
           order == sortFiles(h, torrent[h].order)
       IN IF downloadStartsPass(h, prog)
          THEN /\ processingInProgress' = TRUE
               /\ processingTimeout' = Null
               /\ torrent' = [clearProcessingTimeout(torrent) EXCEPT ![h].prog = prog, ![h].order = order]
               /\ pass' = [pass EXCEPT ![h] = earlyFrom(h, order, prog, 1, << >>, 0)]
          ELSE /\ torrent' = [torrent EXCEPT ![h].prog = prog]
               /\ UNCHANGED <<processingInProgress, processingTimeout, pass>>
    /\ UNCHANGED <<currentHash, currentSiteData, loadPc, cache, viewer, viewerTimers, loads,
                   unloads, readErrors, toSW, toMgr, swVars, readySent, overtaken, fnVars>>

\* a done handler that does not test the processing flag
doneStartsPass_Always == TRUE

\* the guard of the done handler
doneStartsPass == ~processingInProgress

\* torrent.on('done'): every file is complete
Done(h) ==
    /\ torrent[h].status = "active"
    /\ ~torrent[h].done
    /\ \A i \in 1..NumFiles(h) : torrent[h].prog[i] = 100
    /\ IF doneStartsPass
       THEN /\ processingInProgress' = TRUE
            /\ processingTimeout' = Null
            /\ torrent' = [clearProcessingTimeout(torrent) EXCEPT ![h].done = TRUE]
            /\ pass' = [pass EXCEPT ![h] = fullFrom(h, 1, << >>, 0)]
       ELSE /\ torrent' = [torrent EXCEPT ![h].done = TRUE]
            /\ UNCHANGED <<processingInProgress, processingTimeout, pass>>
    /\ UNCHANGED <<currentHash, currentSiteData, loadPc, cache, viewer, viewerTimers, loads,
                   unloads, readErrors, toSW, toMgr, swVars, readySent, overtaken, fnVars>>

\* a timer callback that also starts a pass at exactly 80%
timerStartsPass_At80(h, prog) == ~processingInProgress /\ ProgressAtLeast(h, prog, TIMER_MIN_PROGRESS)

\* the guard of the processing timer's callback
timerStartsPass(h, prog) == ~processingInProgress /\ ProgressAbove(h, prog, TIMER_MIN_PROGRESS)

\* the processing timer of torrent h fires
ProcessingTimer(h) ==
    /\ torrent[h].timer = "armed"
    /\ LET order == sortFiles(h, torrent[h].order)
       IN IF timerStartsPass(h, torrent[h].prog)
          THEN /\ processingInProgress' = TRUE
               /\ torrent' = [torrent EXCEPT ![h].timer = "fired", ![h].order = order]
               /\ pass' = [pass EXCEPT ![h] = earlyFrom(h, order, torrent[h].prog, 1, << >>, 0)]
          ELSE /\ torrent' = [torrent EXCEPT ![h].timer = "fired"]
               /\ UNCHANGED <<processingInProgress, pass>>
    /\ UNCHANGED <<currentHash, currentSiteData, processingTimeout, loadPc, cache, viewer,
                   viewerTimers, loads, unloads, readErrors, toSW, toMgr, swVars, readySent, overtaken, fnVars>>

\* The pass of torrent h awaits the bytes of the file at its position.
\* "retry" is the second read of a failed index.html (the FILE_RETRY_DELAY
\* wait and the read that follows it are one wait here).
ReadingFile(h) == torrent[h].order[pass[h].idx]

\* getFileBuffer / getFileBufferWithTimeout resolves: the file is complete
ReadOk(h) ==
    /\ pass[h].pc \in {"read", "retry"}
    /\ torrent[h].prog[ReadingFile(h)] = 100
    /\ pass' = [pass EXCEPT ![h] =
                   passFrom(h, pass[h].kind, torrent[h].order, torrent[h].prog, pass[h].idx + 1,
                            putRecord(pass[h].data, FileRecord(h, ReadingFile(h))),
                            pass[h].processed + 1)]
    /\ overtaken' = IF pass'[h].pc = "gateFailed" THEN overtaken \ {h} ELSE overtaken
    /\ UNCHANGED fnVars
    /\ UNCHANGED <<currentHash, currentSiteData, processingInProgress, processingTimeout, loadPc,
                   cache, torrent, viewer, viewerTimers, loads, unloads, readErrors, toSW, toMgr,
                   swVars, readySent>>

\* a catch block that re-reads whichever file failed
retriesFile_AnyFile(h, kind, pc, i) == kind = "early" /\ pc = "read"

\* the catch block of the early pass re-reads a file whose name includes index.html
retriesFile(h, kind, pc, i) ==
    kind = "early" /\ pc = "read" /\ includesIndexHtml(TorrentFiles(h)[i].name)

\* the read rejects: the timeout of an early pass on an incomplete file, or
\* an error of the swarm adapter
ReadFail(h) ==
    /\ pass[h].pc \in {"read", "retry"}
    /\ \/ /\ pass[h].kind = "early"
          /\ torrent[h].prog[ReadingFile(h)] < 100
          /\ UNCHANGED readErrors
       \/ /\ torrent[h].prog[ReadingFile(h)] = 100
          /\ readErrors < MaxReadErrors
          /\ readErrors' = readErrors + 1
    /\ pass' = [pass EXCEPT ![h] =
                   IF retriesFile(h, pass[h].kind, pass[h].pc, ReadingFile(h))
                   THEN [pass[h] EXCEPT !.pc = "retry"]
                   ELSE passFrom(h, pass[h].kind, torrent[h].order, torrent[h].prog,
                                 pass[h].idx + 1, pass[h].data, pass[h].processed)]
    /\ overtaken' = IF pass'[h].pc = "gateFailed" THEN overtaken \ {h} ELSE overtaken
    /\ UNCHANGED fnVars
    /\ UNCHANGED <<currentHash, currentSiteData, processingInProgress, processingTimeout, loadPc,
                   cache, torrent, viewer, viewerTimers, loads, unloads, toSW, toMgr, swVars,
                   readySent>>

\* `await this.cache.set(hash, siteData)` resumes: displaySite, then the
\* processing flag is reset
PassFinish(h) ==
    /\ pass[h].pc = "cacheSet"
    /\ cache' = [cache EXCEPT ![h] = SiteData(pass[h].data)]
    /\ displaySite(pass[h].data, h)
    /\ processingInProgress' = FALSE
    /\ pass' = [pass EXCEPT ![h] = IdlePass]
    /\ overtaken' = overtaken \ {h}
    /\ UNCHANGED fnVars
    /\ UNCHANGED <<processingTimeout, loadPc, torrent, viewer, loads, unloads, readErrors, toMgr,
                   swVars>>

(***************************************************************************)
(* Site Manager: answering the Resolver                                    *)
(***************************************************************************)
DotSlash == <<".", "/">>
Slash == <<"/">>

\* the cleaned path of findFileInSiteData
cleanPath(requestedPath) ==
    LET p1 == IF StartsWith(requestedPath, DotSlash)
              THEN SubSeq(requestedPath, 3, Len(requestedPath)) ELSE requestedPath
    IN IF StartsWith(p1, Slash) THEN SubSeq(p1, 2, Len(p1)) ELSE p1

\* the first record, in key order, that satisfies P; NoRecord when none does
FirstRecord(files, P(_)) ==
    IF \E i \in 1..Len(files) : P(files[i].name)
    THEN files[CHOOSE i \in 1..Len(files) :
                  P(files[i].name) /\ \A j \in 1..(i - 1) : ~P(files[j].name)]
    ELSE NoRecord

\* a findFileInSiteData without the stage that matches by file name
findFileInSiteData_NoFileNameStage(siteData, requestedPath) ==
    LET clean == cleanPath(requestedPath)
        IsRequested(key) == key = requestedPath
        IsClean(key) == key = clean
        SameEnding(key) == EndsWith(key, clean) \/ EndsWith(clean, key)
        files == siteData.files
    IN IF siteData.null THEN NoRecord
       ELSE IF FirstRecord(files, IsRequested) # NoRecord THEN FirstRecord(files, IsRequested)
       ELSE IF FirstRecord(files, IsClean) # NoRecord THEN FirstRecord(files, IsClean)
       ELSE FirstRecord(files, SameEnding)

\* PeerWeb.findFileInSiteData(requestedPath): exact match, then file name,
\* then ending
findFileInSiteData(siteData, requestedPath) ==
    LET clean == cleanPath(requestedPath)
        fileName == LastPart(clean, "/")
        IsRequested(key) == key = requestedPath
        IsClean(key) == key = clean
        SameFileName(key) == LastPart(key, "/") = fileName
        SameEnding(key) == EndsWith(key, clean) \/ EndsWith(clean, key)
        files == siteData.files
    IN IF siteData.null THEN NoRecord
       ELSE IF FirstRecord(files, IsRequested) # NoRecord THEN FirstRecord(files, IsRequested)
       ELSE IF FirstRecord(files, IsClean) # NoRecord THEN FirstRecord(files, IsClean)
       ELSE IF FirstRecord(files, SameFileName) # NoRecord THEN FirstRecord(files, SameFileName)
       ELSE FirstRecord(files, SameEnding)

\* a handleServiceWorkerResourceRequest that never finds the file
resourceResponse_NoData(m) == ResourceResponseMsg(m.requestId, m.url, NoBytes, NoType)

\* the RESOURCE_RESPONSE of handleServiceWorkerResourceRequest
resourceResponse(m) ==
    LET file == findFileInSiteData(currentSiteData, m.filePath)
    IN IF currentSiteData.null \/ file = NoRecord
       THEN ResourceResponseMsg(m.requestId, m.url, NoBytes, NoType)
       ELSE ResourceResponseMsg(m.requestId, m.url,
                                [owner |-> file.owner, name |-> file.name, length |-> file.size],
                                file.type)

\* the Manager's message listener receives a RESOURCE_REQUEST
HandleResourceRequest ==
    /\ toMgr # << >>
    /\ toMgr' = Tail(toMgr)
    /\ toSW' = Append(toSW, resourceResponse(Head(toMgr)))
    /\ UNCHANGED <<mgrVars, swVars, readySent, overtaken, fnVars>>

(***************************************************************************)
(* Resolver: pure helpers (src/peerweb-sw.js)                              *)
(***************************************************************************)
EmptyMap == [k \in {} |-> Null]
MapPut(m, key, v) == [k \in DOMAIN m \cup {key} |-> IF k = key THEN v ELSE m[k]]
MapDelete(m, key) == [k \in DOMAIN m \ {key} |-> m[k]]

VideoSlash == <<"v","i","d","e","o","/">>
AudioSlash == <<"a","u","d","i","o","/">>

\* isMediaFile(contentType) of the Service Worker; it is also applied to
\* file paths (timeout selection, createNavigationFallback)
isMediaFile(contentType) ==
    IF contentType = NoType THEN FALSE
    ELSE StartsWith(contentType, VideoSlash) \/ StartsWith(contentType, AudioSlash)
         \/ contentType = ImageGif

\* 1024 * 100: an answer is cached when it is media and longer than this
MEDIA_CACHE_MIN_LENGTH == 102400

\* A Response.  body: NoBody, or the bytes [from, from + len) of a file's
\* content; kind tells the generated responses apart.
Response(status, kind, body, contentType, contentLength, contentRange, retryAfter) ==
    [ status |-> status, kind |-> kind, body |-> body, contentType |-> contentType,
      contentLength |-> contentLength, contentRange |-> contentRange, retryAfter |-> retryAfter ]

Min(x, y) == IF x <= y THEN x ELSE y
Max(x, y) == IF x >= y THEN x ELSE y

\* uint8Array.slice(start, end + 1) of a content of the given length
Slice(data, start, end) ==
    LET from == Min(Max(start, 0), data.length)
        to == Min(Max(end + 1, 0), data.length)
    IN [owner |-> data.owner, name |-> data.name, from |-> from, len |-> Max(to - from, 0)]

\* createMediaResponse(uint8Array, contentType, range)
createMediaResponse(data, contentType, range) ==
    IF range = NoRange \/ ~isMediaFile(contentType)
    THEN Response(200, "file", Slice(data, 0, data.length - 1),
                  IF contentType = NoType THEN OctetStream ELSE contentType,
                  data.length, NoSpan, FALSE)
    ELSE Response(206, "file", Slice(data, range.start, range.end), contentType,
                  range.end - range.start + 1, <<range.start, range.end, data.length>>, FALSE)

\* a parseRangeHeader that does not clamp the end to the file
parseRangeHeader_Unclamped(rangeHeader, fileSize) ==
    IF rangeHeader = NoRangeHeader \/ rangeHeader.unit # "bytes" THEN NoRange
    ELSE LET s0 == IF rangeHeader.start = -1 \/ rangeHeader.start = 0 THEN 0 ELSE rangeHeader.start
             e0 == IF rangeHeader.end = -1 \/ rangeHeader.end = 0 THEN fileSize - 1 ELSE rangeHeader.end
             start == Max(0, Min(s0, fileSize - 1))
         IN [start |-> start, end |-> Max(start, e0)]

\* parseRangeHeader(rangeHeader, fileSize).  A header is NoRangeHeader or
\* [unit, start, end]: "<unit>=<start>-<end>", a part that parseInt does not
\* read as a number being -1.
parseRangeHeader(rangeHeader, fileSize) ==
    IF rangeHeader = NoRangeHeader \/ rangeHeader.unit # "bytes" THEN NoRange
    ELSE LET s0 == IF rangeHeader.start = -1 \/ rangeHeader.start = 0 THEN 0 ELSE rangeHeader.start
             e0 == IF rangeHeader.end = -1 \/ rangeHeader.end = 0 THEN fileSize - 1 ELSE rangeHeader.end
             start == Max(0, Min(s0, fileSize - 1))
             end == Max(start, Min(e0, fileSize - 1))
         IN [start |-> start, end |-> end]

\* url.pathname.split('/').filter(part => part.length > 0), the segments after
\* the identifier joined by '/': the path without its empty segments
RECURSIVE joinSegments(_)
joinSegments(path) ==
    IF path = << >> THEN << >>
    ELSE IF Head(path) = "/"
    THEN LET rest == joinSegments(Tail(path))
         IN rest
    ELSE LET rest == Tail(path)
         IN IF rest # << >> /\ Head(rest) = "/"
            THEN IF joinSegments(rest) = << >> THEN <<Head(path)>>
                 ELSE <<Head(path), "/">> \o joinSegments(rest)
            ELSE <<Head(path)>> \o joinSegments(rest)

\* s.split(c)[0]
RECURSIVE TakeBefore(_, _)
TakeBefore(s, c) ==
    IF s = << >> \/ Head(s) = c THEN << >> ELSE <<Head(s)>> \o TakeBefore(Tail(s), c)

\* normalizeFilePath(filePath, url), with the known paths `files`
normalizeFilePath(filePath, hasQueryOrFragment, files) ==
    IF filePath = << >> THEN IndexHtml
    ELSE IF EndsWith(filePath, Slash) THEN filePath \o IndexHtml
    ELSE IF ~Includes(filePath, <<".">>)
    THEN IF (filePath \o SlashIndexHtml) \in files THEN filePath \o SlashIndexHtml
         ELSE IF (filePath \o DotHtml) \in files THEN filePath \o DotHtml
         ELSE filePath \o SlashIndexHtml
    ELSE IF hasQueryOrFragment THEN TakeBefore(TakeBefore(filePath, "?"), "#")
    ELSE filePath

TextPlain == <<"t","e","x","t","/","p","l","a","i","n">>

\* createNavigationFallback(filePath)
createNavigationFallback(filePath) ==
    IF isMediaFile(filePath)
    THEN Response(503, "unavailable", NoBody, TextPlain, -1, NoSpan, TRUE)
    ELSE Response(200, "fallback", NoBody, TextHtml, -1, NoSpan, FALSE)

NoResponse == Response(0, "none", NoBody, NoType, -1, NoSpan, FALSE)
InvalidUrlResponse == Response(400, "invalid", NoBody, NoType, -1, NoSpan, FALSE)
NotReadyResponse == Response(503, "notready", NoBody, TextPlain, -1, NoSpan, FALSE)
WrongSiteResponse == Response(404, "wrongsite", NoBody, TextPlain, -1, NoSpan, FALSE)
NotFoundResponse == Response(404, "notfound", NoBody, TextPlain, -1, NoSpan, FALSE)
ChunkUnavailableResponse == Response(416, "nochunk", NoBody, NoType, -1, NoSpan, FALSE)

(***************************************************************************)
(* Resolver: fetch events (handlePeerWebRequest, requestResourceFromMainThread) *)
(***************************************************************************)
\* A fetch event: url = [hash, path] (hash Null: no identifier segment),
\* range = the Range header.  stage: "wait" (readiness poll loop),
\* "suspended" (the promise of requestResourceFromMainThread is pending),
\* "answered".  lookup: the clients.matchAll() callback ("none": not called,
\* "pending", or the branch it took); timer: the request timeout.  resolves
\* counts the invocations of the promise's resolve.
NewRequest(url, range) ==
    [ url |-> url, range |-> range, stage |-> "wait", lookup |-> "none", timer |-> "none",
      filePath |-> << >>, resp |-> NoResponse, resolves |-> 0, servedIn |-> Null ]

\* the handler returns a response
respond(req, response) ==
    [req EXCEPT !.stage = "answered", !.resp = response, !.servedIn = swState]

\* resolve(response) of the promise of requestResourceFromMainThread: the
\* first call settles it
resolve(req, response) ==
    IF req.resp = NoResponse
    THEN [req EXCEPT !.stage = "answered", !.resp = response, !.servedIn = swState,
                     !.resolves = @ + 1]
    ELSE [req EXCEPT !.resolves = @ + 1]

\* requestResourceFromMainThread up to its return: the Pending Request is
\* stored (range is the constant null of handlePeerWebRequest), matchAll is
\* called and the timeout is armed
forwardedRange(rangeHeader) == NoRange

forward(req, filePath) ==
    [req EXCEPT !.stage = "suspended", !.lookup = "pending", !.timer = "armed",
                !.filePath = filePath]

\* a handlePeerWebRequest without the readiness poll loop
siteNotLoaded_Never == FALSE

\* `if (!currentSiteHash)`: the request enters the readiness poll loop
siteNotLoaded == currentSiteHash = Null

\* a handlePeerWebRequest without the identifier check
isWrongSite_Never(hash) == FALSE

\* the identifier check of handlePeerWebRequest
isWrongSite(hash) == hash # currentSiteHash

\* a handlePeerWebRequest that never finds the URL in the media cache
isCachedMedia_Never(url) == FALSE

\* `if (cachedMedia)`, cachedMedia being mediaCache.get(request.url)
isCachedMedia(url) == url \in DOMAIN mediaCache

\* the response of the media-cache branch: the Range header is parsed
\* against the cached length
cacheHitResponse(cached, rangeHeader) ==
    createMediaResponse(cached.data, cached.contentType,
                        IF rangeHeader # NoRangeHeader
                        THEN parseRangeHeader(rangeHeader, cached.length)
                        ELSE NoRange)

\* handlePeerWebRequest from the identifier check on (currentSiteHash is
\* set), for request r of the fetch events `all`
proceed(all, r) ==
    LET req == all[r]
    IN IF isWrongSite(req.url.hash)
       THEN /\ reqs' = [all EXCEPT ![r] = respond(req, WrongSiteResponse)]
            /\ UNCHANGED pendingRequests
       ELSE IF isCachedMedia(req.url)
       THEN /\ reqs' = [all EXCEPT ![r] =
                           respond(req, cacheHitResponse(mediaCache[req.url], req.range))]
            /\ UNCHANGED pendingRequests
       ELSE /\ reqs' = [all EXCEPT ![r] =
                           forward(req, normalizeFilePath(joinSegments(req.url.path), FALSE,
                                                          currentSiteFiles))]
            /\ pendingRequests' = MapPut(pendingRequests, r, [range |-> forwardedRange(req.range)])

\* request URLs and Range headers of the modelled fetch events
\* ("A" is site "a" with its identifier spelled in upper case)
RequestUrls ==
    { [hash |-> "a", path |-> EmptyPath], [hash |-> "a", path |-> ClipMp4],
      [hash |-> "b", path |-> EmptyPath], [hash |-> "A", path |-> EmptyPath] }
RangeHeaders == { NoRangeHeader, [unit |-> "bytes", start |-> 10, end |-> -1] }

\* handlePeerWebRequest(request) up to its first await, `earlier` being the
\* fetch events before this one
handlePeerWebRequest(earlier, url, range) ==
    LET r == Len(earlier) + 1
        req == NewRequest(url, range)
    IN IF url.hash = Null
       THEN /\ reqs' = Append(earlier, respond(req, InvalidUrlResponse))
            /\ UNCHANGED pendingRequests
       ELSE IF siteNotLoaded
       THEN /\ reqs' = Append(earlier, req)
            /\ UNCHANGED pendingRequests
       ELSE proceed(Append(earlier, req), r)

\* a fetch event for a /peerweb-site/ URL
Fetch(url, range) ==
    /\ Len(reqs) < MaxRequests
    /\ handlePeerWebRequest(reqs, url, range)
    /\ UNCHANGED <<mgrVars, toSW, toMgr, currentSiteHash, currentSiteFiles, mediaCache, swState,
                   readySent, overtaken, fnVars>>

\* the readiness poll loop sees a site identifier and goes on
WaitEnds(r) ==
    /\ r \in 1..Len(reqs)
    /\ reqs[r].stage = "wait"
    /\ currentSiteHash # Null
    /\ proceed(reqs, r)
    /\ UNCHANGED <<mgrVars, toSW, toMgr, currentSiteHash, currentSiteFiles, mediaCache, swState,
                   readySent, overtaken, fnVars>>

\* the poll loop reaches maxWait with no site: 503
WaitTimesOut(r) ==
    /\ r \in 1..Len(reqs)
    /\ reqs[r].stage = "wait"
    /\ currentSiteHash = Null
    /\ reqs' = [reqs EXCEPT ![r] = respond(reqs[r], NotReadyResponse)]
    /\ UNCHANGED <<mgrVars, toSW, toMgr, currentSiteHash, currentSiteFiles, pendingRequests,
                   mediaCache, swState, readySent, overtaken, fnVars>>

\* range of the RESOURCE_REQUEST: the `range` argument, also stored in the entry
pendingRangeOf(r) == forwardedRange(reqs[r].range)

\* the RESOURCE_REQUEST message of request r
ResourceRequestMsg(r) ==
    [ type |-> "RESOURCE_REQUEST", url |-> reqs[r].url, filePath |-> reqs[r].filePath,
      requestId |-> r, range |-> pendingRangeOf(r) ]

\* window clients clients.matchAll() may report: the Manager's page ("main"),
\* only pages inside /peerweb-site/ ("iframe": clients[0] gets the message and
\* has no listener for it), or none (the callback's else branch; the catch
\* of a rejection runs the same statements)
ClientKinds == {"main", "iframe", "none"}

\* a callback that resolves nothing when no client is found
resolvesAtOnce_Never(c) == FALSE

\* the callback's last else branch and the catch: no window client at all
resolvesAtOnce(c) == c = "none"

\* the callback of clients.matchAll() (or its catch) for request r
ClientsMatched(r, c) ==
    /\ r \in 1..Len(reqs)
    /\ reqs[r].lookup = "pending"
    /\ c \in ClientKinds
    /\ IF c = "main"
       THEN /\ toMgr' = Append(toMgr, ResourceRequestMsg(r))
            /\ reqs' = [reqs EXCEPT ![r].lookup = c]
            /\ UNCHANGED pendingRequests
       ELSE IF ~resolvesAtOnce(c)
       THEN /\ reqs' = [reqs EXCEPT ![r].lookup = c]
            /\ UNCHANGED <<toMgr, pendingRequests>>
       ELSE /\ pendingRequests' = MapDelete(pendingRequests, r)
            /\ reqs' = [reqs EXCEPT ![r] =
                           [resolve(reqs[r], createNavigationFallback(reqs[r].filePath))
                               EXCEPT !.lookup = c]]
            /\ UNCHANGED toMgr
    /\ UNCHANGED <<mgrVars, toSW, currentSiteHash, currentSiteFiles, mediaCache, swState,
                   readySent, overtaken, fnVars>>

\* the guard of the request timeout's callback
timeoutResolves(r) == r \in DOMAIN pendingRequests

\* the request timeout of request r fires
RequestTimeout(r) ==
    /\ r \in 1..Len(reqs)
    /\ reqs[r].timer = "armed"
    /\ IF timeoutResolves(r)
       THEN /\ pendingRequests' = MapDelete(pendingRequests, r)
            /\ reqs' = [reqs EXCEPT ![r] =
                           [resolve(reqs[r], createNavigationFallback(reqs[r].filePath))
                               EXCEPT !.timer = "fired"]]
       ELSE /\ reqs' = [reqs EXCEPT ![r].timer = "fired"]
            /\ UNCHANGED pendingRequests
    /\ UNCHANGED <<mgrVars, toSW, toMgr, currentSiteHash, currentSiteFiles, mediaCache, swState,
                   readySent, overtaken, fnVars>>

(***************************************************************************)
(* Resolver: the message handler                                           *)
(***************************************************************************)
SetOf(seq) == {seq[i] : i \in 1..Len(seq)}

\* `if (pendingRequest)` of handleResourceResponse / handleMediaChunkResponse
hasPendingRequest(requestId) == requestId \in DOMAIN pendingRequests

\* a handleResourceResponse that caches media answers of any size
cachesAnswer_AnySize(m) == isMediaFile(m.contentType)

\* the answer is inserted into the media cache
cachesAnswer(m) == isMediaFile(m.contentType) /\ m.data.length > MEDIA_CACHE_MIN_LENGTH

\* `if (fileData && fileData.length > 0)`
hasBytes(data) == data # NoBytes /\ data.length > 0

\* a handleResourceResponse that caches before it looks the request up
mediaCacheAfterResponse_Unguarded(m) ==
    IF hasBytes(m.data) /\ cachesAnswer(m)
    THEN MapPut(mediaCache, m.url,
                [data |-> m.data, contentType |-> m.contentType, length |-> m.data.length])
    ELSE mediaCache

\* the media cache after handleResourceResponse(m)
mediaCacheAfterResponse(m) ==
    IF hasPendingRequest(m.requestId) /\ hasBytes(m.data) /\ cachesAnswer(m)
    THEN MapPut(mediaCache, m.url,
                [data |-> m.data, contentType |-> m.contentType, length |-> m.data.length])
    ELSE mediaCache

\* a handleResourceResponse that treats "no data" like a missing answer
answerResponse_Fallback(m, pendingRequest) ==
    IF hasBytes(m.data)
    THEN createMediaResponse(m.data, m.contentType, pendingRequest.range)
    ELSE createNavigationFallback(m.url.path)

\* the response handleResourceResponse resolves the Pending Request with
answerResponse(m, pendingRequest) ==
    IF hasBytes(m.data)
    THEN createMediaResponse(m.data, m.contentType, pendingRequest.range)
    ELSE NotFoundResponse

\* handleResourceResponse(data)
handleResourceResponse(m) ==
    /\ mediaCache' = mediaCacheAfterResponse(m)
    /\ IF hasPendingRequest(m.requestId)
       THEN /\ pendingRequests' = MapDelete(pendingRequests, m.requestId)
            /\ reqs' = [reqs EXCEPT ![m.requestId] =
                           resolve(@, answerResponse(m, pendingRequests[m.requestId]))]
       ELSE UNCHANGED <<pendingRequests, reqs>>
    /\ UNCHANGED <<currentSiteHash, currentSiteFiles, swState>>

\* handleMediaChunkResponse(data)
handleMediaChunkResponse(m) ==
    /\ IF hasPendingRequest(m.requestId)
       THEN /\ pendingRequests' = MapDelete(pendingRequests, m.requestId)
            /\ reqs' = [reqs EXCEPT ![m.requestId] =
                           resolve(@, IF hasBytes(m.data)
                                      THEN Response(206, "file", Slice(m.data, 0, m.data.length - 1),
                                                    OctetStream, m.data.length, m.span, FALSE)
                                      ELSE ChunkUnavailableResponse)]
       ELSE UNCHANGED <<pendingRequests, reqs>>
    /\ UNCHANGED <<currentSiteHash, currentSiteFiles, mediaCache, swState>>

\* SITE_LOADING and SITE_UNLOADED cases without mediaCache.clear()
mediaCacheAfterSiteChange_Kept == mediaCache

\* mediaCache.clear() of the SITE_LOADING and SITE_UNLOADED cases
mediaCacheAfterSiteChange == EmptyMap

\* case 'SITE_LOADING'
onSiteLoading(m) ==
    /\ currentSiteHash' = m.hash
    /\ currentSiteFiles' = {}
    /\ mediaCache' = mediaCacheAfterSiteChange
    /\ swState' = "Loading"
    /\ UNCHANGED <<pendingRequests, reqs>>

\* case 'SITE_READY'
onSiteReady(m) ==
    /\ currentSiteHash' = m.hash
    /\ currentSiteFiles' = SetOf(m.fileList)
    /\ swState' = "Ready"
    /\ UNCHANGED <<pendingRequests, mediaCache, reqs>>

\* a SITE_UNLOADED case without pendingRequests.clear()
pendingAfterUnload_Kept == pendingRequests

\* what case 'SITE_UNLOADED' leaves of the Pending Request table
pendingAfterUnload == EmptyMap

\* case 'SITE_UNLOADED'
onSiteUnloaded ==
    /\ currentSiteHash' = Null
    /\ currentSiteFiles' = {}
    /\ mediaCache' = mediaCacheAfterSiteChange
    /\ pendingRequests' = pendingAfterUnload
    /\ swState' = "NoSite"
    /\ UNCHANGED reqs

\* self.addEventListener('message', ...): the switch on the message type
onMessage(m) ==
    CASE m.type = "SITE_LOADING" -> onSiteLoading(m)
      [] m.type = "SITE_READY" -> onSiteReady(m)
      [] m.type = "SITE_UNLOADED" -> onSiteUnloaded
      [] m.type = "RESOURCE_RESPONSE" -> handleResourceResponse(m)
      [] m.type = "MEDIA_CHUNK_RESPONSE" -> handleMediaChunkResponse(m)
      [] OTHER -> UNCHANGED swVars

\* the Resolver receives the next message the Manager posted
ReceiveFromManager ==
    /\ toSW # << >>
    /\ onMessage(Head(toSW))
    /\ toSW' = Tail(toSW)
    /\ UNCHANGED <<mgrVars, toMgr, readySent, overtaken, fnVars>>

(***************************************************************************)
(* The system                                                              *)
(***************************************************************************)
ManagerNext ==
    \/ \E h \in Sites : LoadSite(h)
    \/ \E h \in Sites : LoadSiteCached(h)
    \/ \E h \in Sites : LoadSiteAddTorrent(h)
    \/ \E h \in Sites : TorrentAdded(h)
    \/ \E h \in Sites : \E i \in 1..NumFiles(h) : Download(h, i)
    \/ \E h \in Sites : Done(h)
    \/ \E h \in Sites : ProcessingTimer(h)
    \/ \E h \in Sites : ReadOk(h)
    \/ \E h \in Sites : ReadFail(h)
    \/ \E h \in Sites : PassFinish(h)
    \/ \E h \in Sites : ShowSiteViewer(h)
    \/ ShowMainContent
    \/ HandleResourceRequest

ResolverNext ==
    \/ \E url \in RequestUrls : \E range \in RangeHeaders : Fetch(url, range)
    \/ \E r \in 1..MaxRequests : WaitEnds(r)
    \/ \E r \in 1..MaxRequests : WaitTimesOut(r)
    \/ \E r \in 1..MaxRequests : \E c \in ClientKinds : ClientsMatched(r, c)
    \/ \E r \in 1..MaxRequests : RequestTimeout(r)
    \/ ReceiveFromManager

Next == ManagerNext \/ ResolverNext

Spec == Init /\ [][Next]_vars

(***************************************************************************)
(* The Resolver on its own.  The Service Worker handles every message of   *)
(* the protocol that a page posts to it, whatever the page is doing: here  *)
(* the Site Manager is replaced by a page that may post any of them.       *)
(***************************************************************************)
\* the File Records of a whole site, as a pass over its torrent stores them
WholeSite(h) == [i \in 1..Len(TorrentFiles(h)) |-> FileRecord(h, i)]

\* a file found with no content: `Array.from(new Uint8Array(file.content))` is []
EmptyFileBytes == [owner |-> "a", name |-> StyleCss, length |-> 0]

\* data and contentType of the RESOURCE_RESPONSE messages posted: no data,
\* an empty stylesheet, the files of site "a", a clip of exactly the cache's
\* minimum length and a page longer than it
PostedAnswers ==
    { [data |-> NoBytes, contentType |-> NoType],
      [data |-> EmptyFileBytes, contentType |-> TextCss],
      [data |-> [owner |-> "a", name |-> ClipMp4, length |-> FileRecord("a", 1).size],
       contentType |-> VideoMp4],
      [data |-> [owner |-> "a", name |-> ClipMp4, length |-> MEDIA_CACHE_MIN_LENGTH],
       contentType |-> VideoMp4],
      [data |-> [owner |-> "a", name |-> IndexHtml, length |-> FileRecord("a", 2).size],
       contentType |-> TextHtml],
      [data |-> [owner |-> "a", name |-> IndexHtml, length |-> MEDIA_CACHE_MIN_LENGTH + 1],
       contentType |-> TextHtml] }

\* chunks of the MEDIA_CHUNK_RESPONSE messages posted
PostedChunks ==
    { [data |-> NoBytes, span |-> NoSpan],
      [data |-> [owner |-> "a", name |-> ClipMp4, length |-> 100],
       span |-> <<0, 99, FileRecord("a", 1).size>>] }

\* the messages a page may post; an answer names a fetch event and its URL
PostedMessages ==
    {SiteLoadingMsg(h) : h \in Sites}
    \cup {SiteReadyMsg(h, WholeSite(h)) : h \in Sites}
    \cup {SiteUnloadedMsg}
    \cup {ResourceResponseMsg(r, reqs[r].url, a.data, a.contentType) :
              r \in 1..Len(reqs), a \in PostedAnswers}
    \cup {MediaChunkResponseMsg(r, c.data, c.span) : r \in 1..Len(reqs), c \in PostedChunks}

\* a page posts message m to the Service Worker
PagePosts(m) ==
    /\ Len(toSW) < MaxInFlight
    /\ toSW' = Append(toSW, m)
    /\ UNCHANGED <<mgrVars, swVars, toMgr, readySent, overtaken, fnVars>>

\* a fetch event is over: its response is returned, and neither its
\* matchAll callback nor its timeout is still to run
isOver(req) == req.stage \in {"answered", "over"} /\ req.lookup # "pending" /\ req.timer # "armed"

\* what is kept of a fetch event that is over: its requestId only
OverRequest == [NewRequest(NoUrl, NoRangeHeader) EXCEPT !.stage = "over"]

\* a fetch event for a /peerweb-site/ URL, in SpecResolver: the events are
\* taken one after the other
FetchEvent(url, range) ==
    /\ Len(reqs) < MaxOpenRequests
    /\ \A r \in 1..Len(reqs) : isOver(reqs[r])
    /\ handlePeerWebRequest([r \in 1..Len(reqs) |-> OverRequest], url, range)
    /\ UNCHANGED <<mgrVars, toSW, toMgr, currentSiteHash, currentSiteFiles, mediaCache, swState,
                   readySent, overtaken, fnVars>>

ResolverAloneNext ==
    \/ \E m \in PostedMessages : PagePosts(m)
    \/ \E url \in RequestUrls : \E range \in RangeHeaders : FetchEvent(url, range)
    \/ \E r \in 1..MaxOpenRequests : WaitEnds(r)
    \/ \E r \in 1..MaxOpenRequests : WaitTimesOut(r)
    \/ \E r \in 1..MaxOpenRequests : \E c \in ClientKinds : ClientsMatched(r, c)
    \/ \E r \in 1..MaxOpenRequests : RequestTimeout(r)
    \/ ReceiveFromManager

SpecResolver == Init /\ [][ResolverAloneNext]_vars

(***************************************************************************)
(* Range requests on their own: the media-cache branch of                  *)
(* handlePeerWebRequest answering one request from one cache entry         *)
(***************************************************************************)
\* the numbers a part of "bytes=<start>-<end>" is read as: -1 (missing or not
\* a number), and 0 up to past the end of the longest file
RangeParts == (-1)..(MaxFileSize + 1)

\* a Range header and the length of the cached media file it is parsed against
RangeInputs ==
    [ header : [unit : {"bytes", "items"}, start : RangeParts, end : RangeParts],
      size : 1..MaxFileSize ]

\* the Media Byte Cache Entry of a clip of `size` bytes
CachedClip(size) ==
    [ data |-> [owner |-> "a", name |-> ClipMp4, length |-> size],
      contentType |-> VideoMp4, length |-> size ]

InitRange == InitProgram /\ fnIn \in {<<x>> : x \in RangeInputs} /\ fnOut = << >>

\* the cache branch runs: the header is parsed and the response is built
ServeRange ==
    /\ fnIn # << >>
    /\ fnOut = << >>
    /\ fnOut' = << [ range |-> parseRangeHeader(fnIn[1].header, fnIn[1].size),
                     response |-> cacheHitResponse(CachedClip(fnIn[1].size), fnIn[1].header) ] >>
    /\ UNCHANGED <<mgrVars, swVars, toSW, toMgr, readySent, overtaken, fnIn>>

SpecRange == InitRange /\ [][ServeRange]_vars

(***************************************************************************)
(* Path resolution on its own: normalizeFilePath in the Service Worker,    *)
(* then findFileInSiteData in the Site Manager, for one requested path and *)
(* one manifest                                                            *)
(***************************************************************************)
\* file names of the manifests: an extensionless file, the same name with
\* .html, as a directory index and in a subdirectory, the index and a style
ExtensionlessName == <<"f">>
ManifestNames ==
    { ExtensionlessName, ExtensionlessName \o DotHtml, ExtensionlessName \o SlashIndexHtml,
      <<"s", "/">> \o ExtensionlessName \o DotHtml, IndexHtml, StyleCss }

\* the manifests: file names without repetition, in insertion order
Manifests ==
    UNION { {m \in [1..n -> ManifestNames] : \A i, j \in 1..n : i # j => m[i] # m[j]} :
            n \in 0..MaxManifest }

\* the requested paths: the names of the manifests, spelled as they are,
\* with a leading "./" or "/", as a directory, under another directory;
\* the site root; a name that ends with a manifest name; a name no manifest has
RequestedPaths ==
    ManifestNames
    \cup {DotSlash \o n : n \in ManifestNames}
    \cup {Slash \o n : n \in {ExtensionlessName \o DotHtml, StyleCss}}
    \cup {ExtensionlessName \o Slash, <<"d", "/">> \o ExtensionlessName \o DotHtml, EmptyPath,
          <<"s">> \o StyleCss, <<"x", ".", "j", "s">>}

\* the File Record a pass stores for a file of the manifest
ManifestRecord(name) == [name |-> name, owner |-> "a", type |-> getContentType(name), size |-> 10]

\* the site data with the manifest's records, in insertion order
ManifestData(manifest) == SiteData([i \in 1..Len(manifest) |-> ManifestRecord(manifest[i])])

LookupInputs == [manifest : Manifests, path : RequestedPaths]

InitLookup == InitProgram /\ fnIn \in {<<x>> : x \in LookupInputs} /\ fnOut = << >>

\* the Service Worker normalizes the requested path against the known paths
NormalizePath ==
    /\ fnIn # << >>
    /\ fnOut = << >>
    /\ fnOut' = << [ filePath |-> normalizeFilePath(fnIn[1].path, FALSE, SetOf(fnIn[1].manifest)),
                     looked |-> FALSE, record |-> NoRecord ] >>
    /\ UNCHANGED <<mgrVars, swVars, toSW, toMgr, readySent, overtaken, fnIn>>

\* the Site Manager looks the normalized path up in its site data
LookupFile ==
    /\ fnOut # << >>
    /\ ~fnOut[1].looked
    /\ fnOut' = << [ fnOut[1] EXCEPT
                       !.looked = TRUE,
                       !.record = findFileInSiteData(ManifestData(fnIn[1].manifest),
                                                     fnOut[1].filePath) ] >>
    /\ UNCHANGED <<mgrVars, swVars, toSW, toMgr, readySent, overtaken, fnIn>>

SpecLookup == InitLookup /\ [][NormalizePath \/ LookupFile]_vars

(***************************************************************************)
(* Early-availability policy on its own: the decision taken at a progress  *)
(* event and the files the early extraction pass it starts reads, for one  *)
(* torrent and one progress per file                                       *)
(***************************************************************************)
\* the torrents of the policy: the two sites' and the five-file ones
PolicyTorrents == {"a", "b", "c", "d"}
\* file.progress values (percent) on both sides of every per-file threshold
PolicyProgressLevels == {0, 69, 70, 79, 80, 89, 90, 100}
PolicyInputs ==
    UNION { [torrent : {h}, prog : [1..Len(TorrentFiles(h)) -> PolicyProgressLevels]] :
            h \in PolicyTorrents }

InitPolicy ==
    /\ InitProgram
    /\ fnIn \in {<<input>> : input \in PolicyInputs}
    /\ fnOut = << >>

\* torrent.on('download'): the decision of shouldProcessSiteEarly
OnDownload ==
    /\ fnIn # << >>
    /\ fnOut = << >>
    /\ fnOut' = << [ early |-> shouldProcessSiteEarly(fnIn[1].torrent, fnIn[1].prog),
                     passed |-> FALSE,
                     read |-> {} ] >>
    /\ UNCHANGED <<mgrVars, swVars, toSW, toMgr, readySent, overtaken, fnIn>>

\* processTorrentEarly: the files of the torrent the loop does not skip
EarlyPass ==
    /\ fnOut # << >>
    /\ fnOut[1].early
    /\ ~fnOut[1].passed
    /\ fnOut' = << [ early |-> TRUE,
                     passed |-> TRUE,
                     read |-> {i \in 1..Len(TorrentFiles(fnIn[1].torrent)) :
                                  ~skipsFile(fnIn[1].torrent, i, fnIn[1].prog)} ] >>
    /\ UNCHANGED <<mgrVars, swVars, toSW, toMgr, readySent, overtaken, fnIn>>

SpecPolicy == InitPolicy /\ [][OnDownload \/ EarlyPass]_vars

(***************************************************************************)
(* Identifier canonicalization on its own: sanitizeHash and                *)
(* isValidTorrentHash applied to a typed text, then loadSite with that     *)
(* text and the unload of the site                                         *)
(***************************************************************************)
HASH_LENGTH == 40
HexChars ==
    {"0","1","2","3","4","5","6","7","8","9",
     "a","b","c","d","e","f","A","B","C","D","E","F"}
\* characters String.prototype.trim removes
WhiteSpaceChars == {" ", "\t", "\n"}
isHexChar(c) == c \in HexChars

\* String.prototype.trim
RECURSIVE TrimStart(_)
TrimStart(s) == IF s # << >> /\ Head(s) \in WhiteSpaceChars THEN TrimStart(Tail(s)) ELSE s
RECURSIVE TrimEnd(_)
TrimEnd(s) ==
    IF s # << >> /\ s[Len(s)] \in WhiteSpaceChars THEN TrimEnd(SubSeq(s, 1, Len(s) - 1)) ELSE s
Trim(s) == TrimEnd(TrimStart(s))

\* PeerWeb.sanitizeHash(hash), for a string
sanitizeHash(hash) ==
    IF hash = << >> THEN << >> ELSE ToLower(SelectSeq(hash, isHexChar))

\* PeerWeb.isValidTorrentHash(hash) without its trim
isValidTorrentHash_Untrimmed(hash) ==
    /\ hash # << >>
    /\ Len(hash) = HASH_LENGTH
    /\ \A i \in 1..Len(hash) : isHexChar(hash[i])

\* PeerWeb.isValidTorrentHash(hash), for a string
isValidTorrentHash(hash) ==
    /\ hash # << >>
    /\ LET trimmed == Trim(hash)
       IN /\ Len(trimmed) = HASH_LENGTH
          /\ trimmed # << >>
          /\ \A i \in 1..Len(trimmed) : isHexChar(trimmed[i])

\* the typed texts: a body, with something before and after it
Repeated(c, n) == [i \in 1..n |-> c]
HashBodies ==
    { Repeated("a", HASH_LENGTH), Repeated("A", HASH_LENGTH),
      <<"A", "b", "0", "9">> \o Repeated("f", HASH_LENGTH - 4),
      Repeated("a", HASH_LENGTH - 1) \o <<"g">>,
      Repeated("a", HASH_LENGTH - 1), Repeated("a", HASH_LENGTH + 1),
      Repeated("a", HASH_LENGTH \div 2) \o <<"-">> \o Repeated("a", HASH_LENGTH \div 2),
      Repeated("a", HASH_LENGTH \div 2) \o <<" ">> \o Repeated("a", HASH_LENGTH \div 2),
      << >> }
HashMargins == { << >>, <<" ">>, <<"\n">>, <<"x">>, <<"0">> }
TypedHashes == { before \o body \o after : before \in HashMargins, body \in HashBodies, after \in HashMargins }

\* this.currentHash as a text; null
NoHash == [null |-> TRUE, hash |-> << >>]
HashOf(hash) == [null |-> FALSE, hash |-> hash]

InitHash ==
    /\ InitProgram
    /\ fnIn \in {<<text>> : text \in TypedHashes}
    /\ fnOut = << >>

\* sanitizeHash and isValidTorrentHash, each applied to the typed text
CheckHash ==
    /\ fnIn # << >>
    /\ fnOut = << >>
    /\ fnOut' = << [ phase |-> "checked",
                     sanitized |-> sanitizeHash(fnIn[1]),
                     valid |-> isValidTorrentHash(fnIn[1]),
                     currentHash |-> NoHash ] >>
    /\ UNCHANGED <<mgrVars, swVars, toSW, toMgr, readySent, overtaken, fnIn>>

\* loadSite(hash) with the typed text, up to this.currentHash = sanitizedHash
LoadTypedSite ==
    /\ fnOut # << >>
    /\ fnOut[1].phase = "checked"
    /\ LET sanitizedHash == sanitizeHash(fnIn[1])
       IN fnOut' = IF ~isValidTorrentHash(sanitizedHash)
                   THEN << [fnOut[1] EXCEPT !.phase = "rejected"] >>
                   ELSE << [fnOut[1] EXCEPT !.phase = "loaded",
                                            !.currentHash = HashOf(sanitizedHash)] >>
    /\ UNCHANGED <<mgrVars, swVars, toSW, toMgr, readySent, overtaken, fnIn>>

\* showMainContent(): this.currentHash = null
UnloadTypedSite ==
    /\ fnOut # << >>
    /\ fnOut[1].phase = "loaded"
    /\ fnOut' = << [fnOut[1] EXCEPT !.phase = "unloaded", !.currentHash = NoHash] >>
    /\ UNCHANGED <<mgrVars, swVars, toSW, toMgr, readySent, overtaken, fnIn>>

SpecHash == InitHash /\ [][CheckHash \/ LoadTypedSite \/ UnloadTypedSite]_vars

(***************************************************************************)
(* Extraction on its own: the processing timer and the early pass of a     *)
(* torrent whose progress events have started no pass, and the timer of a  *)
(* torrent that fires while its pass is running                            *)
(***************************************************************************)
\* the five-file torrent "c" beside the two sites
ExtractionTorrents == Sites \cup {"c"}
\* file.progress values when the timer fires
ExtractionProgressLevels == {0, 80, 90, 100}
\* torrent.files as the swarm adapter lists them
ExtractionOrders == { <<1, 2, 3, 4, 5>>, <<5, 4, 3, 2, 1>>, <<4, 5, 1, 3, 2>> }

\* torrent "c" after client.add's callback and its progress events so far:
\* none of them met the early-availability policy, the timer is pending
WaitingTorrent(prog, order) ==
    [status |-> "active", prog |-> prog, order |-> order, done |-> FALSE, timer |-> "armed"]

\* loadSite(a) and then loadSite(c) each added a torrent; the timer of "c"
\* took the place of a's in this.processingTimeout; a progress event of "a"
\* started its early pass and cleared that handle: a's own timer is pending
OvertakenTorrents ==
    { [h \in ExtractionTorrents |->
         CASE h = "a" -> [status |-> "active", prog |-> prog, order |-> sortFiles("a", <<1, 2>>),
                          done |-> FALSE, timer |-> "armed"]
           [] h = "c" -> [status |-> "active", prog |-> [i \in 1..5 |-> 0], order |-> <<1, 2, 3, 4, 5>>,
                          done |-> FALSE, timer |-> "cleared"]
           [] OTHER -> NoTorrent(h)] :
      prog \in {<<100, 0>>, <<100, 100>>} }

InitExtraction ==
    /\ currentHash = "c"
    /\ currentSiteData = NullData
    /\ loadPc = [h \in ExtractionTorrents |-> "idle"]
    /\ cache = [h \in ExtractionTorrents |-> IF h \in Sites THEN CachedSites[h] ELSE NullData]
    /\ \/ /\ torrent \in { [h \in ExtractionTorrents |->
                               IF h = "c" THEN WaitingTorrent(prog, order) ELSE NoTorrent(h)] :
                           prog \in { p \in [1..5 -> ExtractionProgressLevels] :
                                        ~shouldProcessSiteEarly("c", p) },
                           order \in ExtractionOrders }
          /\ processingInProgress = FALSE
          /\ processingTimeout = "c"
          /\ pass = [h \in ExtractionTorrents |-> IdlePass]
       \/ /\ torrent \in OvertakenTorrents
          /\ processingInProgress = TRUE
          /\ processingTimeout = Null
          /\ pass = [h \in ExtractionTorrents |->
                       IF h = "a"
                       THEN earlyFrom("a", torrent["a"].order, torrent["a"].prog, 1, << >>, 0)
                       ELSE IdlePass]
    /\ viewer = Null
    /\ viewerTimers = {}
    /\ loads = MaxLoads
    /\ unloads = 0
    /\ readErrors = 0
    /\ toSW = << >>
    /\ toMgr = << >>
    /\ currentSiteHash = Null
    /\ currentSiteFiles = {}
    /\ pendingRequests = << >>
    /\ mediaCache = << >>
    /\ reqs = << >>
    /\ swState = "NoSite"
    /\ readySent = {}
    /\ overtaken = {}
    /\ fnIn = << >>
    /\ fnOut = << >>

ExtractionNext ==
    \/ \E h \in ExtractionTorrents : ProcessingTimer(h)
    \/ \E h \in ExtractionTorrents : ReadOk(h)
    \/ \E h \in ExtractionTorrents : ReadFail(h)
    \/ \E h \in ExtractionTorrents : PassFinish(h)

SpecExtraction == InitExtraction /\ [][ExtractionNext]_vars

(***************************************************************************)
(* Properties                                                              *)
(***************************************************************************)
Requests == 1..Len(reqs)

\* a response that carries bytes of a site file (the 200 / 206 of createMediaResponse)
carriesFileBytes(response) == response.kind = "file"

SiteMessageTypes == {"SITE_LOADING", "SITE_READY", "SITE_UNLOADED"}

\* no extraction pass is between its start and its end
NoPassRunning == \A h \in Sites : pass[h].pc \in {"idle", "gateFailed"}

\* C1: every intercepted request is eventually answered.  The request timeout
\* is the last event that can answer a forwarded request, so: once the timeout
\* of a request has fired, the request has its response.
C1_AnsweredOnceTimerFired ==
    \A r \in Requests : reqs[r].timer = "fired" => reqs[r].stage = "answered"

\* C2: the resolve callback of a forwarded request is invoked at most once,
\* whichever of the answer, the timeout and the no-client path comes first.
C2_ResolveAtMostOnce ==
    \A r \in Requests : reqs[r].resolves <= 1

\* C3: the Resolver's handling of a RESOURCE_RESPONSE whose requestId is not
\* in the Pending Request table changes neither the table, nor the media
\* cache, nor the current identifier, nor the known files, and resolves nothing.
C3_UnknownResponseIsNoOp ==
    [][(/\ toSW # << >>
        /\ Head(toSW).type = "RESOURCE_RESPONSE"
        /\ Head(toSW).requestId \notin DOMAIN pendingRequests
        /\ toSW' = Tail(toSW))
       => UNCHANGED <<pendingRequests, mediaCache, currentSiteHash, currentSiteFiles, reqs>>]_vars

\* C3 happens: the Manager was asked for request r, the timeout answered r
\* first, and the Manager's answer has since been received by the Resolver.
C3_LateAnswerDropped ==
    \E r \in Requests :
        /\ reqs[r].lookup = "main"
        /\ reqs[r].timer = "fired"
        /\ reqs[r].resp.kind = "fallback"
        /\ toMgr = << >>
        /\ \A i \in 1..Len(toSW) : toSW[i].type # "RESOURCE_RESPONSE"

C5_NewLoadInvalidatesPriorSite ==
    \A h \in Sites :
        (currentHash = h /\ loadPc[h] = "cacheGet")
        => /\ \A i \in 1..Len(currentSiteData.files) : currentSiteData.files[i].owner = h
           /\ toSW = << >>
              => /\ \A u \in DOMAIN mediaCache : u.hash = h
                 /\ \A r \in DOMAIN pendingRequests : reqs[r].url.hash = h

\* C6: when the pass of site h ends after the load of another site has begun
\* while it was running, and that site is the Manager's current one,
\* the Manager's identifier and site data stay as they are and no SITE_READY
\* is posted.
C6_StalePassLeavesNewSite ==
    [][\A h \in Sites :
          (/\ h \in overtaken
           /\ pass[h].pc \in {"read", "retry", "cacheSet"}
           /\ pass'[h].pc \in {"idle", "gateFailed"}
           /\ currentHash \in Sites \ {h})
          => UNCHANGED <<currentHash, currentSiteData, toSW>>]_vars

\* C7: after an early pass of torrent h that ended at its gate, a progress
\* event after which the early-availability policy holds (no other pass
\* running) starts a new pass.
C7_FailedPassDoesNotBlock ==
    [][\A h \in Sites :
          (/\ pass[h].pc = "gateFailed"
           /\ NoPassRunning
           /\ torrent'[h].prog # torrent[h].prog
           /\ shouldProcessSiteEarly(h, torrent'[h].prog))
          => pass'[h].pc \in {"read", "cacheSet"}]_vars

\* C8: a torrent with an index.html, all of whose files are downloaded and
\* read without error, is published: once its done event has been handled, no
\* pass is running and no processing timer is left, SITE_READY has been sent.
C8_CompleteTorrentIsPublished ==
    \A h \in Sites :
        (/\ findIndexFile(h)
         /\ torrent[h].done
         /\ readErrors = 0
         /\ NoPassRunning
         /\ torrent[h].timer # "armed")
        => h \in readySent

\* C9: every SITE_READY the Manager sends carries a non-empty file list with
\* an entry that is index.html or ends with /index.html.
C9_SiteReadyListsIndex ==
    \A i \in 1..Len(toSW) :
        toSW[i].type = "SITE_READY"
        => /\ toSW[i].fileList # << >>
           /\ \E j \in 1..Len(toSW[i].fileList) : isIndexName(toSW[i].fileList[j])

\* C9 happens: a SITE_READY of a site extracted from its torrent is in
\* flight, and a site has also been published from the cache.
C9_SiteReadyInFlight ==
    /\ \E i \in 1..Len(toSW) : toSW[i].type = "SITE_READY" /\ toSW[i].hash = "a"
    /\ readySent = {"a", "b"}

\* C10: the Resolver's view of the site differs from the Manager's only while
\* a site message is undelivered, and the last of these carries the
\* Manager's view.
C10_ViewsDifferByUndeliveredMessage ==
    currentSiteHash # currentHash
    => \E i \in 1..Len(toSW) :
          /\ toSW[i].type \in SiteMessageTypes
          /\ toSW[i].hash = currentHash
          /\ \A j \in (i + 1)..Len(toSW) : toSW[j].type \notin SiteMessageTypes

\* request r reaches the identifier check of handlePeerWebRequest in this
\* step: it arrives while a site identifier is set, or leaves the readiness
\* poll loop because one has been set
reachesIdentifierCheck(r) ==
    /\ currentSiteHash # Null
    /\ r \in 1..Len(reqs')
    /\ IF r > Len(reqs) THEN reqs'[r].url.hash # Null
       ELSE reqs[r].stage = "wait" /\ reqs'[r].stage # "wait"

\* C11: a request whose identifier differs (in more than letter case) from
\* the Resolver's current identifier is answered 404 "wrong site"; it gets no
\* Pending Request entry, no matchAll lookup and no RESOURCE_REQUEST, and it
\* is not answered from the media cache.
C11_WrongSiteIs404 ==
    [][\A r \in 1..MaxOpenRequests :
          (reachesIdentifierCheck(r) /\ LowerChar(reqs'[r].url.hash) # currentSiteHash)
          => /\ reqs'[r].resp = WrongSiteResponse
             /\ reqs'[r].stage = "answered"
             /\ reqs'[r].lookup = "none"
             /\ pendingRequests' = pendingRequests
             /\ toMgr' = toMgr]_vars

\* C11 happens: a request for another site than the current one has its 404
\* although the media cache holds an entry under its very URL.
C11_WrongSiteDespiteCachedUrl ==
    \E r \in Requests :
        /\ reqs[r].resp = WrongSiteResponse
        /\ reqs[r].url \in DOMAIN mediaCache
        /\ currentSiteHash \notin {Null, reqs[r].url.hash}

\* C12: the identifier comparison ignores letter case: a request whose URL
\* identifier is an upper-case spelling of the Resolver's current (lower-case)
\* identifier is not answered with the wrong-site 404.
C12_IdentifierMatchIgnoresCase ==
    [][\A r \in 1..MaxRequests :
          (reachesIdentifierCheck(r) /\ LowerChar(reqs'[r].url.hash) = currentSiteHash)
          => reqs'[r].resp # WrongSiteResponse]_vars

\* C13: a request that arrives while the Resolver has no site is held, without
\* a response, in the readiness wait; it leaves the wait either with a site
\* identifier set, and then gets the outcome of the identifier check, or at
\* the end of the window with still no site, and then gets the 503.
C13_HeldUntilSiteOrWindowEnd ==
    [][\A r \in 1..MaxRequests :
          /\ (r \in 1..Len(reqs') /\ r > Len(reqs) /\ currentSiteHash = Null
                 /\ reqs'[r].url.hash # Null)
             => (reqs'[r].stage = "wait" /\ reqs'[r].resp = NoResponse)
          /\ (r \in 1..Len(reqs) /\ reqs[r].stage = "wait" /\ reqs'[r].stage # "wait")
             => IF currentSiteHash = Null
                THEN reqs'[r].resp = NotReadyResponse /\ reqs'[r].resp.status = 503
                ELSE /\ reachesIdentifierCheck(r)
                     /\ reqs'[r].resp.kind # "notready"
                     /\ (LowerChar(reqs'[r].url.hash) # currentSiteHash
                            => reqs'[r].resp = WrongSiteResponse)
                     /\ (reqs'[r].url.hash = currentSiteHash
                            => reqs'[r].resp # WrongSiteResponse)]_vars

\* C13 happens: a request that arrived with no site has waited the whole
\* window and has its 503, and the Manager has loaded a site meanwhile.
C13_WaitedOutTheWindow ==
    \E r \in Requests :
        /\ reqs[r].resp = NotReadyResponse
        /\ reqs[r].servedIn = "NoSite"
        /\ loads > 0

\* the Manager's listener takes a RESOURCE_REQUEST off its queue in this step
receivesResourceRequest == toMgr # << >> /\ toMgr' = Tail(toMgr)

\* C14: the step in which the Manager receives a RESOURCE_REQUEST posts
\* exactly one message, a RESOURCE_RESPONSE with the request's requestId and
\* url; it carries the bytes and content type of the record the lookup finds,
\* and data = null when there is no site data or no lookup stage matches.  No
\* other step posts a RESOURCE_RESPONSE.
C14_OneResponsePerRequest ==
    [][/\ receivesResourceRequest
          => LET m == Head(toMgr)
                 file == findFileInSiteData(currentSiteData, m.filePath)
                 answer == toSW'[Len(toSW')]
             IN /\ Len(toSW') = Len(toSW) + 1
                /\ SubSeq(toSW', 1, Len(toSW)) = toSW
                /\ answer.type = "RESOURCE_RESPONSE"
                /\ answer.requestId = m.requestId
                /\ answer.url = m.url
                /\ IF currentSiteData.null \/ file = NoRecord
                   THEN answer.data = NoBytes
                   ELSE /\ answer.data # NoBytes
                        /\ answer.data.name = file.name
                        /\ answer.data.owner = file.owner
                        /\ answer.data.length = file.size
                        /\ answer.contentType = file.type
       /\ (Len(toSW') > Len(toSW) /\ toSW'[Len(toSW')].type = "RESOURCE_RESPONSE")
          => receivesResourceRequest]_vars

\* C14 happens: the Manager has answered a request with the bytes of a file
\* of its site data, and the answer is on its way to the Resolver.
C14_AnswerWithBytesInFlight ==
    \E i \in 1..Len(toSW) :
        /\ toSW[i].type = "RESOURCE_RESPONSE"
        /\ toSW[i].data # NoBytes
        /\ toSW[i].url = reqs[toSW[i].requestId].url
        /\ ~currentSiteData.null

\* the Resolver processes, in this step, a RESOURCE_RESPONSE for a requestId
\* that has a Pending Request entry
receivesAnswer ==
    /\ toSW # << >>
    /\ toSW' = Tail(toSW)
    /\ Head(toSW).type = "RESOURCE_RESPONSE"
    /\ Head(toSW).requestId \in DOMAIN pendingRequests

\* C15: a RESOURCE_RESPONSE with null data for a pending requestId gives that
\* request a 404, which is not the response the request gets when its timeout
\* (or a failed client lookup) resolves it: that one is the fallback of
\* createNavigationFallback, a 200 page or a 503.
C15_NotFoundIs404 ==
    [][/\ (receivesAnswer /\ Head(toSW).data = NoBytes)
          => LET r == Head(toSW).requestId
             IN /\ reqs[r].resp = NoResponse
                /\ reqs'[r].stage = "answered"
                /\ reqs'[r].resp = NotFoundResponse
                /\ reqs'[r].resp.status = 404
                /\ reqs'[r].resp # createNavigationFallback(reqs[r].filePath)
       /\ \A r \in Requests :
             (reqs[r].stage = "suspended" /\ reqs'[r].stage = "answered" /\ ~receivesAnswer)
             => /\ reqs'[r].resp = createNavigationFallback(reqs[r].filePath)
                /\ reqs'[r].resp.status # 404]_vars

\* C15 happens: a request was answered "no data" by the Manager while its
\* entry was pending, and has the 404.
C15_AnsweredNotFound ==
    \E r \in Requests :
        /\ reqs[r].resp = NotFoundResponse
        /\ reqs[r].lookup = "main"
        /\ r \notin DOMAIN pendingRequests

\* request r got bytes of a site file through the round trip to the Manager
answeredByRoundTrip(r) == reqs[r].lookup = "main" /\ carriesFileBytes(reqs[r].resp)

\* C16: the media cache is a pure read-through cache: whenever a request was
\* answered through the round trip and the media cache holds the same file
\* under the request's URL, the response a cache hit produces for the same
\* request (same Range header) has the same status, body bytes and content
\* type as the response the request got.
C16_CacheHitEqualsRoundTrip ==
    \A r \in Requests :
        (/\ answeredByRoundTrip(r)
         /\ reqs[r].url \in DOMAIN mediaCache
         /\ mediaCache[reqs[r].url].data.owner = reqs[r].resp.body.owner
         /\ mediaCache[reqs[r].url].data.name = reqs[r].resp.body.name)
        => LET hit == cacheHitResponse(mediaCache[reqs[r].url], reqs[r].range)
           IN /\ hit.status = reqs[r].resp.status
              /\ hit.body = reqs[r].resp.body
              /\ hit.contentType = reqs[r].resp.contentType

\* C17: a request with a Range header that misses the media cache has its
\* parsed byte range in its Pending Request entry and in its RESOURCE_REQUEST,
\* and a media answer to it is served as 206 Partial Content.
C17_RangeIsForwarded ==
    /\ \A r \in DOMAIN pendingRequests :
          reqs[r].range # NoRangeHeader => pendingRequests[r].range # NoRange
    /\ \A i \in 1..Len(toMgr) :
          reqs[toMgr[i].requestId].range # NoRangeHeader => toMgr[i].range # NoRange
    /\ \A r \in Requests :
          (/\ answeredByRoundTrip(r)
           /\ reqs[r].range # NoRangeHeader
           /\ isMediaFile(reqs[r].resp.contentType))
          => reqs[r].resp.status = 206

\* the Resolver processes a SITE_LOADING or a SITE_UNLOADED in this step
receivesSiteChange ==
    /\ toSW # << >>
    /\ toSW' = Tail(toSW)
    /\ Head(toSW).type \in {"SITE_LOADING", "SITE_UNLOADED"}

\* C18: the step in which the Resolver processes SITE_LOADING or
\* SITE_UNLOADED leaves the media cache and the set of known files empty, so
\* that every entry the cache holds was inserted after the last such message.
C18_SiteChangeEmptiesCache ==
    [][receivesSiteChange
       => /\ mediaCache' = EmptyMap
          /\ DOMAIN mediaCache' = {}
          /\ currentSiteFiles' = {}]_vars

\* C18 happens: a media file longer than the cache's minimum was answered
\* through the round trip (and so cached), a SITE_LOADING has been processed
\* since, and the cache and the known files are empty.
C18_CacheGoneAfterSiteLoading ==
    /\ swState = "Loading"
    /\ mediaCache = EmptyMap
    /\ currentSiteFiles = {}
    /\ \E r \in Requests :
          /\ answeredByRoundTrip(r)
          /\ isMediaFile(reqs[r].resp.contentType)
          /\ reqs[r].resp.contentLength > MEDIA_CACHE_MIN_LENGTH

\* C19: a media cache entry appears or changes only in a step that processes
\* an answer to a pending request with non-empty bytes, a media content type
\* (video/*, audio/* or image/gif) and more than 102400 bytes; the entry is
\* stored under that request's URL, holds the answer's bytes and type, and
\* its recorded length is the length of its data.
C19_CacheEntriesComeFromMediaAnswers ==
    [][\A u \in DOMAIN mediaCache' :
          (u \notin DOMAIN mediaCache \/ mediaCache'[u] # mediaCache[u])
          => /\ receivesAnswer
             /\ LET m == Head(toSW)
                IN /\ m.data # NoBytes
                   /\ m.data.length > 0
                   /\ \/ StartsWith(m.contentType, VideoSlash)
                      \/ StartsWith(m.contentType, AudioSlash)
                      \/ m.contentType = ImageGif
                   /\ m.data.length > MEDIA_CACHE_MIN_LENGTH
                   /\ u = reqs[m.requestId].url
                   /\ mediaCache'[u].data = m.data
                   /\ mediaCache'[u].contentType = m.contentType
                   /\ mediaCache'[u].length = m.data.length]_vars

\* C19 happens: the cache holds the clip under the URL of a request that the
\* round trip answered with it.
C19_ClipCached ==
    \E r \in Requests :
        /\ answeredByRoundTrip(r)
        /\ reqs[r].url \in DOMAIN mediaCache
        /\ mediaCache[reqs[r].url].data.name = ClipMp4
        /\ mediaCache[reqs[r].url].length > MEDIA_CACHE_MIN_LENGTH

\* C20: a request for the current site whose URL is in the media cache is
\* answered from the cache in the step of its identifier check: it gets no
\* Pending Request entry, no client lookup, no timeout and no
\* RESOURCE_REQUEST, then or later; a request whose URL is not in the cache
\* is suspended on the round trip, with a Pending Request entry.
C20_HitAnswersFromCache ==
    [][\A r \in 1..MaxOpenRequests :
          /\ (reachesIdentifierCheck(r) /\ reqs'[r].url.hash = currentSiteHash)
             => IF reqs'[r].url \in DOMAIN mediaCache
                THEN /\ reqs'[r].stage = "answered"
                     /\ reqs'[r].resp = cacheHitResponse(mediaCache[reqs'[r].url], reqs'[r].range)
                     /\ reqs'[r].lookup = "none"
                     /\ reqs'[r].timer = "none"
                     /\ pendingRequests' = pendingRequests
                     /\ toMgr' = toMgr
                ELSE /\ reqs'[r].stage = "suspended"
                     /\ reqs'[r].resp = NoResponse
                     /\ reqs'[r].lookup = "pending"
                     /\ r \in DOMAIN pendingRequests'
                     /\ r \notin DOMAIN pendingRequests
          /\ (r \in Requests /\ reqs[r].stage = "answered" /\ reqs[r].lookup = "none")
             => (r \notin DOMAIN pendingRequests' /\ toMgr' = toMgr)]_vars

\* C20 happens: a request with a Range header was answered 206 from the cache
\* with no client lookup, and no RESOURCE_REQUEST names it.
C20_RangeServedFromCache ==
    \E r \in Requests :
        /\ reqs[r].stage = "answered"
        /\ reqs[r].lookup = "none"
        /\ reqs[r].range # NoRangeHeader
        /\ reqs[r].resp.status = 206
        /\ reqs[r].url \in DOMAIN mediaCache
        /\ \A i \in 1..Len(toMgr) : toMgr[i].requestId # r

\* C21: whenever a "bytes=<s>-<e>" header parsed against a file of length
\* L >= 1 is served as partial content, the range satisfies
\* 0 <= start <= end <= L-1, the body is the end-start+1 bytes from start,
\* Content-Length is end-start+1 and Content-Range is "bytes start-end/L".
C21_PartialContentWithinFile ==
    (fnOut # << >> /\ fnOut[1].response.status = 206)
    => LET range == fnOut[1].range
           response == fnOut[1].response
           L == fnIn[1].size
       IN /\ 0 <= range.start
          /\ range.start <= range.end
          /\ range.end <= L - 1
          /\ response.body.from = range.start
          /\ response.body.len = range.end - range.start + 1
          /\ response.contentLength = range.end - range.start + 1
          /\ response.contentRange = <<range.start, range.end, L>>

\* C21 happens: a header whose start and end both lie past the end of the
\* file has been served as partial content.
C21_RangePastEndServed ==
    /\ fnOut # << >>
    /\ fnOut[1].response.status = 206
    /\ fnIn[1].header.start > fnIn[1].size - 1
    /\ fnIn[1].header.end > fnIn[1].size - 1

\* C22: range parsing returns the requested span: "bytes=<s>-<e>" with
\* 0 <= s <= e <= L-1 gives {s, e}; a missing end gives end = L-1; a missing
\* or non-numeric start gives start = 0.
C22_ParsedRangeIsRequestedSpan ==
    (fnOut # << >> /\ fnIn[1].header.unit = "bytes")
    => LET s == fnIn[1].header.start
           e == fnIn[1].header.end
           L == fnIn[1].size
           range == fnOut[1].range
       IN /\ (0 <= s /\ s <= e /\ e <= L - 1) => range = [start |-> s, end |-> e]
          /\ (0 <= s /\ s <= L - 1 /\ e = -1) => range = [start |-> s, end |-> L - 1]
          /\ (s = -1) => range.start = 0

\* C23: the fallback of a forwarded request that was not answered (timeout,
\* or no client to deliver to) goes by the extension of the requested path: a
\* 503 with Retry-After for a media path (.mp4, .webm, .mp3, .ogg, .gif, ...),
\* a 200 HTML document for every other path.
C23_FallbackByExtension ==
    \A r \in Requests :
        reqs[r].resp.kind \in {"fallback", "unavailable"}
        => IF isMediaFileName(reqs[r].filePath)
           THEN reqs[r].resp.status = 503 /\ reqs[r].resp.retryAfter
           ELSE reqs[r].resp.status = 200 /\ reqs[r].resp.contentType = TextHtml

\* the least index of a non-empty set of manifest positions
FirstOf(positions) == CHOOSE i \in positions : \A j \in positions : i <= j

\* C24: the Manager's lookup is staged and the first match wins: the record
\* at the exact path, else at the path with a leading "./" or "/" stripped;
\* only otherwise the first manifest entry, in insertion order, whose file
\* name is the requested file name; only otherwise the first entry that ends
\* with the cleaned path or that the cleaned path ends with; null otherwise.
C24_LookupIsStagedFirstMatch ==
    (fnOut # << >> /\ fnOut[1].looked)
    => LET manifest == fnIn[1].manifest
           path == fnOut[1].filePath
           clean == cleanPath(path)
           positions == 1..Len(manifest)
           exact == {i \in positions : manifest[i] = path}
           cleaned == {i \in positions : manifest[i] = clean}
           byName == {i \in positions : LastPart(manifest[i], "/") = LastPart(clean, "/")}
           bySuffix == {i \in positions :
                           EndsWith(manifest[i], clean) \/ EndsWith(clean, manifest[i])}
           stages == <<exact, cleaned, byName, bySuffix>>
           matching == {k \in 1..4 : stages[k] # {}}
       IN IF matching = {}
          THEN fnOut[1].record = NoRecord
          ELSE fnOut[1].record = ManifestRecord(manifest[FirstOf(stages[FirstOf(matching)])])

\* C24 happens: a lookup was decided by the last stage: no entry has the
\* requested file name, and an entry was found by its ending.
C24_FoundByEnding ==
    /\ fnOut # << >>
    /\ fnOut[1].looked
    /\ fnOut[1].record # NoRecord
    /\ \A i \in 1..Len(fnIn[1].manifest) :
          LastPart(fnIn[1].manifest[i], "/") # LastPart(cleanPath(fnOut[1].filePath), "/")

\* a path normalizeFilePath treats as extensionless: not empty, no trailing
\* "/", no "."
isExtensionless(path) == path # << >> /\ ~EndsWith(path, Slash) /\ ~Includes(path, <<".">>)

\* C25: a request for "f" when the manifest has no "f", "f.html" or
\* "f/index.html" but has "s/f.html" falls through to the suffix stage and is
\* resolved to the record of "s/f.html".
C25_SubdirectoryHtmlIsFound ==
    LET f == ExtensionlessName
        sub == <<"s", "/">> \o f \o DotHtml
    IN (/\ fnOut # << >>
        /\ fnOut[1].looked
        /\ fnIn[1].path = f
        /\ sub \in SetOf(fnIn[1].manifest)
        /\ SetOf(fnIn[1].manifest) \cap {f, f \o DotHtml, f \o SlashIndexHtml} = {})
       => fnOut[1].record = ManifestRecord(sub)

\* C26: an extensionless path p is normalized to p itself when p is a known
\* path, and only otherwise to p/index.html if known, else p.html if known,
\* else p/index.html; a request for an extensionless file of the manifest is
\* answered with that file's record.
C26_KnownExtensionlessPathIsKept ==
    (fnOut # << >> /\ isExtensionless(fnIn[1].path))
    => LET p == fnIn[1].path
           known == SetOf(fnIn[1].manifest)
       IN /\ fnOut[1].filePath =
                (IF p \in known THEN p
                 ELSE IF (p \o SlashIndexHtml) \in known THEN p \o SlashIndexHtml
                 ELSE IF (p \o DotHtml) \in known THEN p \o DotHtml
                 ELSE p \o SlashIndexHtml)
          /\ (fnOut[1].looked /\ p \in known) => fnOut[1].record = ManifestRecord(p)

overallAtLeast(pct) ==
    LET files == TorrentFiles(fnIn[1].torrent)
        n == Len(files)
    IN SumOver([i \in 1..n |-> files[i].length * fnIn[1].prog[i]], n)
       >= pct * SumOver([i \in 1..n |-> files[i].length], n)
\* the share of the input torrent's files at 90% or more is at least pct percent
availabilityAtLeast(pct) ==
    LET n == Len(TorrentFiles(fnIn[1].torrent))
    IN 100 * Cardinality({i \in 1..n : fnIn[1].prog[i] >= 90}) >= pct * n
\* the input torrent has a file named index.html, at the root or in a directory
torrentHasIndexFile ==
    \E i \in 1..Len(TorrentFiles(fnIn[1].torrent)) :
        LET name == ToLower(TorrentFiles(fnIn[1].torrent)[i].name)
        IN name = IndexHtml \/ EndsWith(name, SlashIndexHtml)

\* C28 as stated: the decision after a progress event is true exactly when
\* overall completion is at least 95% or at least 80% of the files are
\* each at least 90% complete.
C28_EarlyIffOverallOrRatio ==
    fnOut # << >> => (fnOut[1].early <=> (overallAtLeast(95) \/ availabilityAtLeast(80)))

\* C28 amended: the decision after a progress event is true exactly when
\* overall completion is at least 95%, or the torrent has an index file and
\* at least 80% of its files are each at least 90% complete.
C28_EarlyIffOverallOrIndexAndRatio ==
    fnOut # << >>
    => (fnOut[1].early <=> (overallAtLeast(95) \/ (torrentHasIndexFile /\ availabilityAtLeast(80))))

\* the decision is taken on the ratio alone: overall completion below 95%
C28_TriggeredByRatio == fnOut # << >> /\ fnOut[1].early /\ ~overallAtLeast(95)

\* C29: an early pass reads a file only if its progress meets the threshold
\* of its type (90% for index.html, .css and .js files, 70% for media, 80%
\* for the others) or the file is media; every other file is skipped.
C29_ReadIffThresholdMetOrMedia ==
    (fnOut # << >> /\ fnOut[1].passed)
    => \A i \in 1..Len(TorrentFiles(fnIn[1].torrent)) :
         LET name == ToLower(TorrentFiles(fnIn[1].torrent)[i].name)
             essential == Includes(name, IndexHtml) \/ EndsWith(name, DotCss) \/ EndsWith(name, DotJs)
             media == isMediaFileName(name)
             threshold == IF essential THEN 90 ELSE IF media THEN 70 ELSE 80
         IN (i \in fnOut[1].read) <=> (media \/ fnIn[1].prog[i] >= threshold)

\* the typed text has only hex characters / only lower-case hex characters
isLowerHexChar(c) == c \in HexChars /\ LowerChar(c) = c
onlyHex(text) == \A i \in 1..Len(text) : text[i] \in HexChars
onlyLowerHex(text) == onlyHex(text) /\ ToLower(text) = text
\* what C30 says of sanitizeHash and of the Manager's current identifier
sanitizedAndCurrentAreCanonical ==
    /\ fnOut[1].sanitized = SelectSeq(ToLower(fnIn[1]), isLowerHexChar)
    /\ ~fnOut[1].currentHash.null
       => (Len(fnOut[1].currentHash.hash) = 40 /\ onlyLowerHex(fnOut[1].currentHash.hash))
    /\ fnOut[1].phase = "loaded" => ~fnOut[1].currentHash.null
    /\ fnOut[1].phase = "unloaded" => fnOut[1].currentHash.null

\* C30 as stated: sanitizeHash returns its input without the non-hex
\* characters, lower-cased; isValidTorrentHash accepts exactly the strings of
\* 40 hex characters; the current identifier set by loadSite is 40 lower-case
\* hex characters, and is null after the unload.
C30_ValidIffFortyHex ==
    fnOut # << >>
    => /\ sanitizedAndCurrentAreCanonical
       /\ fnOut[1].valid <=> (Len(fnIn[1]) = 40 /\ onlyHex(fnIn[1]))

\* C30 amended: as stated, but isValidTorrentHash accepts exactly the
\* strings made of 40 hex characters with any white space before and after
\* them.
C30_ValidIffFortyHexInWhiteSpace ==
    fnOut # << >>
    => /\ sanitizedAndCurrentAreCanonical
       /\ fnOut[1].valid
          <=> \E before \in 0..Len(fnIn[1]) :
                /\ before + 40 <= Len(fnIn[1])
                /\ \A i \in 1..Len(fnIn[1]) :
                     IF i <= before \/ i > before + 40
                     THEN fnIn[1][i] \in WhiteSpaceChars
                     ELSE fnIn[1][i] \in HexChars

\* a text of upper-case hex characters inside white space was accepted,
\* loaded as the site of its lower-case spelling and unloaded
C30_PaddedHashLoadedAndUnloaded ==
    /\ fnOut # << >>
    /\ fnOut[1].phase = "unloaded"
    /\ fnOut[1].valid
    /\ Len(fnIn[1]) > 40
    /\ fnOut[1].sanitized # Trim(fnIn[1])

\* C31: the Pending Request table holds an entry for request r exactly while
\* r is in flight: forwarded and not yet resolved.
C31_PendingIffInFlight ==
    \A r \in Requests : (r \in DOMAIN pendingRequests) <=> (reqs[r].stage = "suspended")

\* an extraction pass of torrent h is running: it awaits a read or cache.set
passRunning(h) == pass[h].pc \in {"read", "retry", "cacheSet"}
\* a step of the download handler, the done handler or the timer callback
\* of torrent h that calls processTorrentEarly or processTorrent
startsPass(h) == torrent'[h] # torrent[h] /\ pass'[h] # pass[h]

timerFires(h) == torrent[h].timer = "armed" /\ torrent'[h].timer = "fired"
\* overall completion of torrent h is strictly above pct percent
overallAbove(h, pct) ==
    LET files == TorrentFiles(h)
        n == Len(files)
    IN SumOver([i \in 1..n |-> files[i].length * torrent[h].prog[i]], n)
       > pct * SumOver([i \in 1..n |-> files[i].length], n)

\* C33: when the processing timer of a torrent fires, an early pass is
\* started iff no pass is in progress and overall completion is strictly
\* above 80%; otherwise the firing changes nothing.
C33_TimerStartsPassIffIdleAndAbove80 ==
    [][\A h \in ExtractionTorrents :
          timerFires(h)
          => IF ~processingInProgress /\ overallAbove(h, 80)
             THEN /\ processingInProgress'
                  /\ pass'[h].kind = "early"
                  /\ pass'[h] # pass[h]
             ELSE UNCHANGED <<pass, processingInProgress, processingTimeout, currentHash,
                              currentSiteData, cache, toSW>>]_vars

\* the timer has started the early pass of a torrent that is between 80% and
\* 95% complete, and the pass is reading a file
C33_TimerStartedPass ==
    /\ torrent["c"].timer = "fired"
    /\ pass["c"].pc = "read"
    /\ pass["c"].kind = "early"
    /\ overallAbove("c", 80)

\* the early pass of torrent h awaits the bytes of a file
earlyReading(h) == pass[h].kind = "early" /\ pass[h].pc \in {"read", "retry"}
\* the name of the file at position j of the file order of torrent h
fileAt(h, j) == TorrentFiles(h)[torrent[h].order[j]].name
\* the read the early pass of torrent h awaits rejects (error or timeout)
readFails(h) == earlyReading(h) /\ pass'[h] # pass[h] /\ pass'[h].processed = pass[h].processed

\* C34: a failed read never ends the early pass: after the failed first read
\* of a file whose name contains index.html that file is read once more;
\* after any other failed read, and after a failed re-read, the pass goes on
\* with the next file it does not skip (or to its end when none is left),
\* and no file is read again.
C34_FailedReadDoesNotAbort ==
    [][\A h \in ExtractionTorrents :
          readFails(h)
          => IF pass[h].pc = "read" /\ Includes(ToLower(fileAt(h, pass[h].idx)), IndexHtml)
             THEN pass'[h] = [pass[h] EXCEPT !.pc = "retry"]
             ELSE /\ pass'[h].pc # "retry"
                  /\ pass'[h].data = pass[h].data \/ pass'[h].pc = "gateFailed"
                  /\ pass'[h].pc = "read"
                     => /\ pass'[h].idx > pass[h].idx
                        /\ \A j \in (pass[h].idx + 1)..(pass'[h].idx - 1) :
                              skipsFile(h, torrent[h].order[j], torrent[h].prog)
                  /\ pass'[h].pc # "read"
                     => \A j \in (pass[h].idx + 1)..NumFiles(h) :
                           skipsFile(h, torrent[h].order[j], torrent[h].prog)]_vars

\* the read and the re-read of index.html both failed and the pass of
\* torrent c is reading a later file
C34_IndexFailedTwicePassGoesOn ==
    /\ pass["c"].kind = "early"
    /\ pass["c"].pc = "read"
    /\ \E j \in 1..(pass["c"].idx - 1) :
          /\ fileAt("c", j) = IndexHtml
          /\ ~skipsFile("c", torrent["c"].order[j], torrent["c"].prog)
          /\ \A i \in 1..Len(pass["c"].data) : pass["c"].data[i].name # IndexHtml

\* essential files (index.html, .css, .js) are class 0, media files class 2,
\* the others class 1
priorityClass(name) ==
    IF Includes(ToLower(name), IndexHtml) \/ EndsWith(ToLower(name), DotCss)
       \/ EndsWith(ToLower(name), DotJs)
    THEN 0
    ELSE IF isMediaFileName(name) THEN 2 ELSE 1

\* C35: an early pass reads the files in priority order: when it reads a
\* file, every file it has read before is of the same or a higher priority
\* (essential before the others, media last), and it never goes back.
C35_ReadInPriorityOrder ==
    [][\A h \in ExtractionTorrents :
          earlyReading(h)'
          => /\ \A j \in 1..(pass'[h].idx - 1) :
                   ~skipsFile(h, torrent'[h].order[j], torrent'[h].prog)
                   => priorityClass(TorrentFiles(h)[torrent'[h].order[j]].name)
                      <= priorityClass(TorrentFiles(h)[torrent'[h].order[pass'[h].idx]].name)
             /\ earlyReading(h)
                => (pass'[h].idx >= pass[h].idx /\ torrent'[h].order = torrent[h].order)]_vars

\* the pass of torrent c has read index.html, then n.txt, and is reading the
\* media file
C35_MediaReadLast ==
    /\ pass["c"].kind = "early"
    /\ pass["c"].pc = "read"
    /\ fileAt("c", pass["c"].idx) = ClipMp4
    /\ Len(pass["c"].data) = 2
    /\ pass["c"].data[1].name = IndexHtml
    /\ pass["c"].data[2].name = NotesTxt

\* the callback of clients.matchAll() for request r runs and finds no client
\* of the kinds `kinds`
findsOnly(r, kinds) == reqs[r].lookup = "pending" /\ reqs'[r].lookup \in kinds
\* request r is resolved with the fallback response and has no table entry
resolvedWithFallback(r) ==
    /\ reqs[r].stage = "answered"
    /\ reqs[r].resp.kind \in {"fallback", "unavailable"}
    /\ r \notin DOMAIN pendingRequests

unloadedSince ==
    /\ unloads > 0
    /\ currentHash = Null
    /\ \A h \in Sites : loadPc[h] = "idle"

postsSiteReady ==
    /\ Len(toSW') = Len(toSW) + 1
    /\ toSW'[Len(toSW')].type = "SITE_READY"

\* C38: after showMainContent, until loadSite is invoked again, the Manager's
\* site data stays empty and no SITE_READY is posted, whatever download, done
\* or timer events of an earlier torrent arrive.
C38_StaysUnloadedUntilLoadSite ==
    [][(unloadedSince /\ loads' = loads)
          => (currentSiteData' = NullData /\ ~postsSiteReady)]_vars

\* the site a request URL names (identifiers are compared in lower case)
siteOfUrl(u) == LowerChar(u.hash)

\* C39: a RESOURCE_RESPONSE with data for a URL of site h carries bytes of a
\* file of site h, and so do the response the request is resolved with and
\* the media cache entry stored under that URL.
C39_AnswerBelongsToRequestedSite ==
    /\ \A i \in 1..Len(toSW) :
          (toSW[i].type = "RESOURCE_RESPONSE" /\ toSW[i].data # NoBytes)
          => toSW[i].data.owner = siteOfUrl(toSW[i].url)
    /\ \A r \in DOMAIN reqs :
          (reqs[r].stage = "answered" /\ reqs[r].resp.body # NoBody)
          => reqs[r].resp.body.owner = siteOfUrl(reqs[r].url)
    /\ \A u \in DOMAIN mediaCache : mediaCache[u].data.owner = siteOfUrl(u)

\* the Resolver takes a RESOURCE_RESPONSE for a request it holds in its table
answersPending(m) ==
    /\ toSW # << >>
    /\ m = Head(toSW)
    /\ toSW' = Tail(toSW)
    /\ m.type = "RESOURCE_RESPONSE"
    /\ hasPendingRequest(m.requestId)

\* C40: a RESOURCE_RESPONSE whose data is a found record's bytes, of whatever
\* length, resolves its request with a 200 of the whole content or a 206 of
\* a part of it; the 404 "not found" is produced only for an answer with no
\* data.
C40_FoundRecordIsServed ==
    [][\A i \in 1..Len(toSW) :
          (i = 1 /\ answersPending(toSW[i]))
          => LET m == toSW[i]
                 resp == reqs'[m.requestId].resp
             IN /\ m.data # NoBytes
                   => /\ resp.status \in {200, 206}
                      /\ resp.body.owner = m.data.owner /\ resp.body.name = m.data.name
                      /\ resp.status = 200 => resp.body.len = m.data.length
                /\ resp = NotFoundResponse => m.data = NoBytes]_vars

=============================================================================
